---- MODULE Spec2Model ----
(***************************************************************************)
(* Model of icue-kb-games: the OpenRGB protocol client (src/openrgb/mod.rs)*)
(* the application entry (src/main.rs) and the control flow of the two     *)
(* game loops (src/games/typing.rs, src/games/wordle.rs).                  *)
(*                                                                         *)
(* Strings of the program (LED names, vendor names) are sequences of       *)
(* one-character strings so that the character-level functions can be     *)
(* computed.  Hardware indices are 0-based as in the source; the frame     *)
(* buffer is a TLA+ sequence, so index i lives at position i + 1.          *)
(***************************************************************************)
EXTENDS Integers, Sequences, FiniteSets, TLC

(***************************************************************************)
(* Bounds of the model (not program constants).                            *)
(***************************************************************************)
MaxControllers == 2
MaxServerVersion == 6
MaxFrames == 1
MaxListLen == 2

(***************************************************************************)
(* Program constants.                                                      *)
(***************************************************************************)
CLIENT_PROTOCOL_MAX == 5
DEVICE_TYPE_KEYBOARD == 5
PACKET_ID_REQUEST_CONTROLLER_COUNT == 0
PACKET_ID_REQUEST_CONTROLLER_DATA == 1
PACKET_ID_REQUEST_PROTOCOL_VERSION == 40
PACKET_ID_SET_CLIENT_NAME == 50
PACKET_ID_UPDATE_LEDS == 1050
PACKET_ID_SET_CUSTOM_MODE == 1100
NEGOTIATE_ATTEMPTS == 3
EXPECT_ATTEMPTS == 5
U16_MAX == 65535
START_LIVES == 5

(***************************************************************************)
(* Error values.  The program's errors are Strings; a format argument      *)
(* ({err}, {addr}) is left out, a packet id argument is kept.              *)
(***************************************************************************)
NoErr == ""
ErrPort == "OPENRGB_PORT must be a valid u16"
ErrTcpConnect == "Failed to connect to OpenRGB at"
ErrReadTimeoutSet == "Failed to set read timeout"
ErrWriteTimeoutSet == "Failed to set write timeout"
ErrReadHeader == "Failed to read OpenRGB packet header"
ErrReadPayload == "Failed to read OpenRGB packet payload"
ErrMagic == "OpenRGB packet magic mismatch"
ErrParse == "OpenRGB packet parse error: unexpected end of buffer"
ErrZeroControllers == "OpenRGB reports zero controllers. Ensure your keyboard is detected."
ErrNoKeyboard == "OpenRGB did not report any keyboard devices."
ErrNoLedNames == "No usable LED names found for this keyboard in OpenRGB."

ErrSend(packet_id) ==
    CASE packet_id = PACKET_ID_REQUEST_CONTROLLER_COUNT -> "Failed to send OpenRGB packet 0"
      [] packet_id = PACKET_ID_REQUEST_CONTROLLER_DATA -> "Failed to send OpenRGB packet 1"
      [] packet_id = PACKET_ID_REQUEST_PROTOCOL_VERSION -> "Failed to send OpenRGB packet 40"
      [] packet_id = PACKET_ID_SET_CLIENT_NAME -> "Failed to send OpenRGB packet 50"
      [] packet_id = PACKET_ID_UPDATE_LEDS -> "Failed to send OpenRGB packet 1050"
      [] packet_id = PACKET_ID_SET_CUSTOM_MODE -> "Failed to send OpenRGB packet 1100"

ErrExpected(expected_id) ==
    CASE expected_id = PACKET_ID_REQUEST_CONTROLLER_COUNT -> "Did not receive expected OpenRGB packet id 0"
      [] expected_id = PACKET_ID_REQUEST_CONTROLLER_DATA -> "Did not receive expected OpenRGB packet id 1"

(***************************************************************************)
(* Characters and strings.                                                 *)
(***************************************************************************)
LowerChars == <<"a","b","c","d","e","f","g","h","i","j","k","l","m",
                "n","o","p","q","r","s","t","u","v","w","x","y","z">>
UpperChars == <<"A","B","C","D","E","F","G","H","I","J","K","L","M",
                "N","O","P","Q","R","S","T","U","V","W","X","Y","Z">>
DigitChars == {"0","1","2","3","4","5","6","7","8","9"}
Whitespace == {" ", "\t", "\n", "\r"}
NoChar == "<none>"

Range(f) == {f[x] : x \in DOMAIN f}

IsLower(c) == \E i \in 1..26 : LowerChars[i] = c
IsUpper(c) == \E i \in 1..26 : UpperChars[i] = c
IsAsciiAlphanumeric(c) == IsLower(c) \/ IsUpper(c) \/ c \in DigitChars

ToAsciiUppercase(c) ==
    IF IsLower(c) THEN UpperChars[CHOOSE i \in 1..26 : LowerChars[i] = c] ELSE c

ToAsciiLowercase(c) ==
    IF IsUpper(c) THEN LowerChars[CHOOSE i \in 1..26 : UpperChars[i] = c] ELSE c

StrUpper(s) == [i \in 1..Len(s) |-> ToAsciiUppercase(s[i])]
StrLower(s) == [i \in 1..Len(s) |-> ToAsciiLowercase(s[i])]

RECURSIVE TrimStart(_)
TrimStart(s) ==
    IF s # <<>> /\ Head(s) \in Whitespace THEN TrimStart(Tail(s)) ELSE s

RECURSIVE TrimEnd(_)
TrimEnd(s) ==
    IF s # <<>> /\ s[Len(s)] \in Whitespace THEN TrimEnd(SubSeq(s, 1, Len(s) - 1)) ELSE s

Trim(s) == TrimEnd(TrimStart(s))

StartsWith(s, prefix) ==
    /\ Len(s) >= Len(prefix)
    /\ SubSeq(s, 1, Len(prefix)) = prefix

StrContains(s, needle) ==
    \E i \in 0..(Len(s) - Len(needle)) : SubSeq(s, i + 1, i + Len(needle)) = needle

StripPrefix(s, prefix) == SubSeq(s, Len(prefix) + 1, Len(s))

S_SPACE == <<"S","P","A","C","E">>
S_KEYCOLON == <<"K","E","Y",":">>
S_KEY == <<"K","E","Y">>
S_corsair == <<"c","o","r","s","a","i","r">>

(* value.split(|c| !c.is_ascii_alphanumeric()): the tokens between          *)
(* separators, empty tokens included.                                       *)
RECURSIVE SplitTokens(_, _, _)
SplitTokens(s, cur, acc) ==
    IF s = <<>> THEN Append(acc, cur)
    ELSE IF IsAsciiAlphanumeric(Head(s))
         THEN SplitTokens(Tail(s), Append(cur, Head(s)), acc)
         ELSE SplitTokens(Tail(s), <<>>, Append(acc, cur))

RECURSIVE FirstSingleToken(_)
FirstSingleToken(tokens) ==
    IF tokens = <<>> THEN NoChar
    ELSE IF Len(Head(tokens)) = 1 /\ IsAsciiAlphanumeric(Head(tokens)[1])
         THEN Head(tokens)[1]
         ELSE FirstSingleToken(Tail(tokens))

(* An extraction that leaves the marker in place. *)
ExtractCharNoStrip(name) ==
    LET value == StrUpper(Trim(name))
    IN  IF StrContains(value, S_SPACE) THEN " "
        ELSE FirstSingleToken(SplitTokens(value, <<>>, <<>>))

extract_char(name) ==
    LET value == StrUpper(Trim(name))
    IN  IF StrContains(value, S_SPACE) THEN " "
        ELSE LET stripped ==
                     IF StartsWith(value, S_KEYCOLON) THEN Trim(StripPrefix(value, S_KEYCOLON))
                     ELSE IF StartsWith(value, S_KEY) THEN Trim(StripPrefix(value, S_KEY))
                     ELSE value
             IN  FirstSingleToken(SplitTokens(stripped, <<>>, <<>>))

(* An insertion that replaces the index of a character already mapped. *)
OrInsertOverwrite(map, ch, idx) ==
    [c \in (DOMAIN map) \cup {ch} |-> IF c = ch THEN idx ELSE map[c]]

(* map.entry(ch).or_insert(idx) *)
OrInsert(map, ch, idx) == map @@ (ch :> idx)

EmptyMap == [c \in {} |-> 0]

(* One scan of build_led_map over names[idx..], 0-based idx, stopping at    *)
(* limit (the alt-name scan breaks at idx >= led_names.len()).              *)
RECURSIVE ScanNames(_, _, _, _)
ScanNames(map, names, idx, limit) ==
    IF idx >= Len(names) \/ idx >= limit THEN map
    ELSE LET ch == extract_char(names[idx + 1])
         IN  ScanNames(IF ch # NoChar THEN OrInsert(map, ch, idx) ELSE map,
                       names, idx + 1, limit)

(* The alt-name scan counting its indices from one. *)
BuildLedMapAltFromOne(led_names, led_alt_names) ==
    LET afterAlt == ScanNames(EmptyMap, <<<<>>>> \o led_alt_names, 0, Len(led_names))
    IN  ScanNames(afterAlt, led_names, 0, Len(led_names))

(* The alt-name scan without its break: every alt-name is read. *)
BuildLedMapEveryAltName(led_names, led_alt_names) ==
    LET afterAlt == ScanNames(EmptyMap, led_alt_names, 0, Len(led_alt_names))
    IN  ScanNames(afterAlt, led_names, 0, Len(led_names))

(* The two scans in the other order: primary names first. *)
BuildLedMapPrimaryFirst(led_names, led_alt_names) ==
    LET afterPrimary == ScanNames(EmptyMap, led_names, 0, Len(led_names))
    IN  ScanNames(afterPrimary, led_alt_names, 0, Len(led_names))

build_led_map(led_names, led_alt_names) ==
    LET afterAlt == ScanNames(EmptyMap, led_alt_names, 0, Len(led_names))
    IN  ScanNames(afterAlt, led_names, 0, Len(led_names))

(***************************************************************************)
(* Colors and the frame buffer.                                            *)
(***************************************************************************)
RgbToU32RedHigh(color) == color.r * 65536 + color.g * 256 + color.b

rgb_to_u32(color) == color.b * 65536 + color.g * 256 + color.r

(* vec![0; n] *)
RECURSIVE ZeroBuffer(_)
ZeroBuffer(n) == IF n = 0 THEN <<>> ELSE Append(ZeroBuffer(n - 1), 0)

IsAllZero(buf) == \A i \in 1..Len(buf) : buf[i] = 0

(* The write loop of set_leds (lines 106-115): entries in list order,       *)
(* an entry with id >= buffer length is skipped.                            *)
RECURSIVE WriteLeds(_, _)
WriteLeds(buf, leds) ==
    IF leds = <<>> THEN buf
    ELSE LET led == Head(leds)
         IN  WriteLeds(IF led.id < Len(buf)
                       THEN [buf EXCEPT ![led.id + 1] =
                                rgb_to_u32([r |-> led.r, g |-> led.g, b |-> led.b])]
                       ELSE buf,
                       Tail(leds))

SetLedsStale(led_buffer, leds) == WriteLeds(led_buffer, leds)

(* A call that writes nothing when one of its entries is out of range. *)
SetLedsAllOrNothing(led_buffer, leds) ==
    IF \E j \in 1..Len(leds) : leds[j].id >= Len(led_buffer)
    THEN ZeroBuffer(Len(led_buffer))
    ELSE WriteLeds(ZeroBuffer(Len(led_buffer)), leds)

(* led_buffer after set_leds: fill(0), then the write loop. *)
SetLedsBuffer(led_buffer, leds) == WriteLeds(ZeroBuffer(Len(led_buffer)), leds)

Min(a, b) == IF a < b THEN a ELSE b

(* A data_size that counts the colors only. *)
UpdateLedsPayloadColorsOnlySize(colors) ==
    LET color_count == Min(Len(colors), U16_MAX)
    IN  <<color_count * 4, color_count>> \o SubSeq(colors, 1, color_count)

(* The payload of send_update_leds as its fields:                           *)
(* <<data_size, color_count>> followed by the colors.                       *)
UpdateLedsPayload(colors) ==
    LET color_count == Min(Len(colors), U16_MAX)
        data_size == 4 + 2 + color_count * 4
    IN  <<data_size, color_count>> \o SubSeq(colors, 1, color_count)

PayloadColors(payload) == SubSeq(payload, 3, Len(payload))

(* One write of send_packet on the wire log; ok = FALSE is a failed         *)
(* write_all/flush.                                                         *)
Packet(device_idx, packet_id, payload, ok) ==
    [dev |-> device_idx, id |-> packet_id, payload |-> payload, ok |-> ok]

(***************************************************************************)
(* The bytes on the wire.  A byte is a number in 0..255, a buffer a        *)
(* sequence of bytes.                                                      *)
(***************************************************************************)
PACKET_MAGIC == <<79, 82, 71, 66>>

(* u16::to_le_bytes and u32::to_le_bytes *)
Le16(n) == <<n % 256, (n \div 256) % 256>>

Le32(n) == <<n % 256, (n \div 256) % 256, (n \div 65536) % 256, (n \div 16777216) % 256>>

(* u32::from_le_bytes of the four bytes of buf that start after offset off *)
FromLe32(buf, off) ==
    buf[off + 1] + buf[off + 2] * 256 + buf[off + 3] * 65536 + buf[off + 4] * 16777216

(* the loop of lines 287-289: each color appended as four bytes *)
RECURSIVE ColorBytes(_)
ColorBytes(colors) ==
    IF colors = <<>> THEN <<>> ELSE Le32(Head(colors)) \o ColorBytes(Tail(colors))

(* the payload buffer send_update_leds builds (lines 282-289) *)
UpdateLedsPayloadBytes(colors) ==
    LET fields == UpdateLedsPayload(colors)
    IN  Le32(fields[1]) \o Le16(fields[2]) \o ColorBytes(PayloadColors(fields))

(* the buffer send_packet hands to write_all (lines 302-307) *)
SendPacketBytes(device_idx, packet_id, payload) ==
    PACKET_MAGIC \o Le32(device_idx) \o Le32(packet_id) \o Le32(Len(payload)) \o payload

(***************************************************************************)
(* Controllers.  A controller-data reply is represented by the record it   *)
(* describes; parse_controller_data applies the version gating of the      *)
(* vendor string and of the alt-name list.                                 *)
(***************************************************************************)
N_KeyA == <<"K","e","y",":"," ","A">>
N_Key1 == <<"K","e","y","1">>
N_AltB == <<"B">>
N_Space == <<"s","p","a","c","e">>
N_Logo == <<"L","o","g","o">>
V_Corsair == <<"C","o","r","s","a","i","r">>
V_Acme == <<"A","c","m","e">>

DaemonDevices ==
    { [device_type |-> 2, name |-> <<"M">>, vendor |-> V_Corsair,
       led_names |-> <<N_Logo>>, led_alt_names |-> <<>>],
      [device_type |-> DEVICE_TYPE_KEYBOARD, name |-> <<"K">>, vendor |-> V_Corsair,
       led_names |-> <<N_KeyA, N_Space>>, led_alt_names |-> <<>>],
      [device_type |-> DEVICE_TYPE_KEYBOARD, name |-> <<"G">>, vendor |-> V_Acme,
       led_names |-> <<N_Key1>>, led_alt_names |-> <<N_AltB, N_KeyA>>],
      [device_type |-> DEVICE_TYPE_KEYBOARD, name |-> <<"N">>, vendor |-> V_Acme,
       led_names |-> <<N_Logo>>, led_alt_names |-> <<>>] }

(* The fields of DeviceData that parse_controller_data keeps. *)
parse_controller_data(idx, rec, protocol_version) ==
    LET vendor == IF protocol_version >= 1 THEN rec.vendor ELSE <<>>
        led_alt_names == IF protocol_version >= 5 THEN rec.led_alt_names ELSE <<>>
        display_name == IF vendor = <<>> THEN rec.name ELSE vendor \o <<" ">> \o rec.name
    IN  [idx |-> idx, device_type |-> rec.device_type, display_name |-> display_name,
         vendor |-> vendor, led_names |-> rec.led_names, led_alt_names |-> led_alt_names]

IsKeyboard(device) == device.device_type = DEVICE_TYPE_KEYBOARD

(* A comparison that leaves out to_ascii_lowercase. *)
IsPreferredCaseSensitive(device) ==
    \/ StrContains(device.vendor, S_corsair)
    \/ StrContains(device.display_name, S_corsair)

IsPreferred(device) ==
    \/ StrContains(StrLower(device.vendor), S_corsair)
    \/ StrContains(StrLower(device.display_name), S_corsair)

SelectNoKeyboardErrSame(devs) == ErrZeroControllers

(* The error of select_keyboard when no keyboard-type device is left. *)
SelectNoKeyboardErr(devs) == ErrNoKeyboard

select_keyboard(devs) ==
    LET keyboards == SelectSeq(devs, IsKeyboard)
    IN  IF keyboards = <<>> THEN [ok |-> FALSE, err |-> SelectNoKeyboardErr(devs)]
        ELSE IF \E i \in 1..Len(keyboards) : IsPreferred(keyboards[i])
        THEN [ok |-> TRUE,
              device |-> keyboards[CHOOSE i \in 1..Len(keyboards) :
                                     /\ IsPreferred(keyboards[i])
                                     /\ \A j \in 1..(i - 1) : ~IsPreferred(keyboards[j])]]
        ELSE [ok |-> TRUE, device |-> keyboards[1]]

(***************************************************************************)
(* Reading packets.  The outcome of one read on the stream is an input:    *)
(* a failure of the header read, of the magic check or of the payload      *)
(* read, or a whole packet.                                                *)
(***************************************************************************)
ReadFailures == {"header_timeout", "header_error", "bad_magic", "payload_timeout", "payload_error"}
ReplyIds == {PACKET_ID_REQUEST_CONTROLLER_COUNT, PACKET_ID_REQUEST_CONTROLLER_DATA,
             PACKET_ID_REQUEST_PROTOCOL_VERSION}

(* A reader that treats a timed-out header read as an error, as read_packet *)
(* does.                                                                    *)
TryReadPacketNoFallback(failure) ==
    CASE failure \in {"header_timeout", "header_error"} -> [kind |-> "Err", err |-> ErrReadHeader]
      [] failure = "bad_magic" -> [kind |-> "Err", err |-> ErrMagic]
      [] failure \in {"payload_timeout", "payload_error"} -> [kind |-> "Err", err |-> ErrReadPayload]

(* try_read_packet on a failed read: Ok(None) for a timed-out header read,  *)
(* Err otherwise.                                                           *)
try_read_packet(failure) ==
    CASE failure = "header_timeout" -> [kind |-> "None", err |-> NoErr]
      [] failure = "header_error" -> [kind |-> "Err", err |-> ErrReadHeader]
      [] failure = "bad_magic" -> [kind |-> "Err", err |-> ErrMagic]
      [] failure \in {"payload_timeout", "payload_error"} -> [kind |-> "Err", err |-> ErrReadPayload]

(* read_packet on a failed read: always Err. *)
read_packet(failure) ==
    CASE failure \in {"header_timeout", "header_error"} -> [kind |-> "Err", err |-> ErrReadHeader]
      [] failure = "bad_magic" -> [kind |-> "Err", err |-> ErrMagic]
      [] failure \in {"payload_timeout", "payload_error"} -> [kind |-> "Err", err |-> ErrReadPayload]

(***************************************************************************)
(* Reading a packet from the bytes of the stream.  avail is what the       *)
(* stream delivers before it ends, ending how a read_exact that wants more *)
(* fails: "timeout" (TimedOut / WouldBlock) or "eof" (any other error).    *)
(***************************************************************************)
HEADER_LEN == 16

(* A reader that returns what it got of a short payload. *)
StreamReadFailureShortPayloadOk(avail, ending) ==
    IF Len(avail) < HEADER_LEN
    THEN IF ending = "timeout" THEN "header_timeout" ELSE "header_error"
    ELSE IF SubSeq(avail, 1, 4) # PACKET_MAGIC THEN "bad_magic"
    ELSE "none"

(* Which step of read_packet / try_read_packet fails on avail, "none" if   *)
(* none does: the header read_exact (lines 324-327), the magic check       *)
(* (329-331), the payload read_exact (338-342).                            *)
StreamReadFailure(avail, ending) ==
    IF Len(avail) < HEADER_LEN
    THEN IF ending = "timeout" THEN "header_timeout" ELSE "header_error"
    ELSE IF SubSeq(avail, 1, 4) # PACKET_MAGIC THEN "bad_magic"
    ELSE IF FromLe32(avail, 12) > 0 /\ Len(avail) - HEADER_LEN < FromLe32(avail, 12)
    THEN IF ending = "timeout" THEN "payload_timeout" ELSE "payload_error"
    ELSE "none"

(* struct Packet as read from avail (lines 333-344): the device index of   *)
(* bytes 4..7 is read and dropped.                                          *)
PacketRead(avail) ==
    [packet_id |-> FromLe32(avail, 8),
     payload |-> SubSeq(avail, HEADER_LEN + 1,
                        Min(Len(avail), HEADER_LEN + FromLe32(avail, 12)))]

(* read_packet on the bytes of the stream *)
ReadPacketBytes(avail, ending) ==
    IF StreamReadFailure(avail, ending) = "none"
    THEN [kind |-> "Ok", err |-> NoErr, packet |-> PacketRead(avail)]
    ELSE read_packet(StreamReadFailure(avail, ending))

(* try_read_packet on the bytes of the stream *)
TryReadPacketBytes(avail, ending) ==
    IF StreamReadFailure(avail, ending) = "none"
    THEN [kind |-> "Some", err |-> NoErr, packet |-> PacketRead(avail)]
    ELSE try_read_packet(StreamReadFailure(avail, ending))

(***************************************************************************)
(* Cursor (lines 522-580) over a payload of bytes.  A cursor is its        *)
(* position and whether a read has failed: each read is followed by `?`,   *)
(* so after a failure nothing more is read.                                *)
(***************************************************************************)
CursorNew == [pos |-> 0, ok |-> TRUE]

(* Cursor::read_bytes (lines 570-579) *)
read_bytes(buf, c, len) ==
    IF ~c.ok THEN c
    ELSE IF c.pos + len > Len(buf) THEN [c EXCEPT !.ok = FALSE]
    ELSE [c EXCEPT !.pos = c.pos + len]

(* the slice a successful read_bytes(len) at c returns *)
BytesAt(buf, c, len) == SubSeq(buf, c.pos + 1, c.pos + len)

(* A skip that moves the position without looking at the length. *)
SkipUnchecked(buf, c, len) == IF ~c.ok THEN c ELSE [c EXCEPT !.pos = c.pos + len]

(* Cursor::skip *)
skip(buf, c, len) == read_bytes(buf, c, len)

(* Cursor::read_u16 and the value it returns when it succeeds *)
read_u16(buf, c) == read_bytes(buf, c, 2)

U16At(buf, c) == buf[c.pos + 1] + buf[c.pos + 2] * 256

(* Cursor::read_u32 *)
read_u32(buf, c) == read_bytes(buf, c, 4)

U32At(buf, c) == FromLe32(buf, c.pos)

(* Cursor::read_i32: i32::from_le_bytes, the top bit is the sign *)
read_i32(buf, c) == read_bytes(buf, c, 4)

I32At(buf, c) ==
    LET low == buf[c.pos + 1] + buf[c.pos + 2] * 256 + buf[c.pos + 3] * 65536
                 + (buf[c.pos + 4] % 128) * 16777216
    IN  IF buf[c.pos + 4] >= 128 THEN (low - 1073741824) - 1073741824 ELSE low

(* Cursor::read_string (lines 551-561): a u16 length, then that many bytes *)
read_string(buf, c) ==
    IF ~read_u16(buf, c).ok THEN read_u16(buf, c)
    ELSE read_bytes(buf, read_u16(buf, c), U16At(buf, c))

(* bytes.split(|b| b == 0).next(): the bytes before the first 0 *)
RECURSIVE UntilNul(_)
UntilNul(bytes) ==
    IF bytes = <<>> \/ Head(bytes) = 0 THEN <<>>
    ELSE <<Head(bytes)>> \o UntilNul(Tail(bytes))

(* The printable ASCII characters, from code 32 to code 126. *)
AsciiTable ==
    <<
       " ", "!", "<quote>", "#", "$", "%", "&", "'", "(", ")", "*", "+", ",", "-", ".", "/",
       "0", "1", "2", "3", "4", "5", "6", "7", "8", "9", ":", ";", "<", "=", ">", "?",
       "@", "A", "B", "C", "D", "E", "F", "G", "H", "I", "J", "K", "L", "M", "N", "O",
       "P", "Q", "R", "S", "T", "U", "V", "W", "X", "Y", "Z", "[", "<backslash>", "]", "^", "_",
       "<backtick>", "a", "b", "c", "d", "e", "f", "g", "h", "i", "j", "k", "l", "m", "n", "o",
       "p", "q", "r", "s", "t", "u", "v", "w", "x", "y", "z", "{", "|", "}", "~" >>

REPLACEMENT_CHARACTER == "<U+FFFD>"

(* String::from_utf8_lossy on one byte of an ASCII text; a byte that is    *)
(* not ASCII is part of an invalid sequence and gives U+FFFD.              *)
CharOfByte(b) ==
    IF b >= 32 /\ b <= 126 THEN AsciiTable[b - 31]
    ELSE IF b < 128 THEN "<control>"
    ELSE REPLACEMENT_CHARACTER

(* the String read_string returns when it succeeds at c *)
StringAt(buf, c) ==
    LET trimmed == UntilNul(BytesAt(buf, read_u16(buf, c), U16At(buf, c)))
    IN  [i \in 1..Len(trimmed) |-> CharOfByte(trimmed[i])]

(* reads of fixed sizes one after the other *)
RECURSIVE ReadFixed(_, _, _)
ReadFixed(buf, c, sizes) ==
    IF sizes = <<>> THEN c
    ELSE ReadFixed(buf, read_bytes(buf, c, Head(sizes)), Tail(sizes))

(* strings one after the other *)
RECURSIVE ReadStrings(_, _, _)
ReadStrings(buf, c, n) ==
    IF n = 0 \/ ~c.ok THEN c ELSE ReadStrings(buf, read_string(buf, c), n - 1)

(***************************************************************************)
(* parse_controller_data on the bytes of a controller-data payload.        *)
(***************************************************************************)
(* line 399: if protocol_version >= 1 *)
HasVendor(protocol_version) == protocol_version >= 1

(* lines 462, 469: if protocol_version >= 3 *)
HasBrightness(protocol_version) == protocol_version >= 3

HasSegmentsFromV5(protocol_version) == protocol_version >= 5

(* line 494: if protocol_version >= 4 *)
HasSegments(protocol_version) == protocol_version >= 4

(* line 501: if protocol_version >= 5 *)
HasZoneFlags(protocol_version) == protocol_version >= 5

(* line 429: if protocol_version >= 5 *)
HasAltNames(protocol_version) == protocol_version >= 5

(* A skip of the whole matrix length after the height and the width. *)
SubNothing(a, b) == a

(* usize::saturating_sub *)
SaturatingSub(a, b) == IF a > b THEN a - b ELSE 0

(* a u16 count, then count * 4 bytes skipped (lines 425-426, 474-475) *)
SkipColors(buf, c) ==
    IF ~read_u16(buf, c).ok THEN read_u16(buf, c)
    ELSE skip(buf, read_u16(buf, c), U16At(buf, c) * 4)

(* skip_mode_data (lines 455-477) *)
skip_mode_data(buf, c, protocol_version) ==
    LET c1 == ReadFixed(buf, read_string(buf, c), <<4, 4, 4, 4>>)
        c2 == IF HasBrightness(protocol_version) THEN ReadFixed(buf, c1, <<4, 4>>) ELSE c1
        c3 == ReadFixed(buf, c2, <<4, 4, 4>>)
        c4 == IF HasBrightness(protocol_version) THEN read_u32(buf, c3) ELSE c3
        c5 == ReadFixed(buf, c4, <<4, 4>>)
    IN  SkipColors(buf, c5)

RECURSIVE SkipModes(_, _, _, _)
SkipModes(buf, c, n, protocol_version) ==
    IF n = 0 \/ ~c.ok THEN c
    ELSE SkipModes(buf, skip_mode_data(buf, c, protocol_version), n - 1, protocol_version)

(* skip_segment_data (lines 508-515) *)
skip_segment_data(buf, c) == ReadFixed(buf, read_string(buf, c), <<4, 4, 4>>)

RECURSIVE SkipSegments(_, _, _)
SkipSegments(buf, c, n) ==
    IF n = 0 \/ ~c.ok THEN c ELSE SkipSegments(buf, skip_segment_data(buf, c), n - 1)

(* skip_zone_data (lines 479-506) *)
skip_zone_data(buf, c, protocol_version) ==
    LET c1 == ReadFixed(buf, read_string(buf, c), <<4, 4, 4, 4>>)
        c2 == read_u16(buf, c1)
        c3 == IF ~c2.ok THEN c2
              ELSE IF U16At(buf, c1) > 0
              THEN skip(buf, ReadFixed(buf, c2, <<4, 4>>), SaturatingSub(U16At(buf, c1), 8))
              ELSE c2
        c4 == IF ~HasSegments(protocol_version) THEN c3
              ELSE IF ~read_u16(buf, c3).ok THEN read_u16(buf, c3)
              ELSE SkipSegments(buf, read_u16(buf, c3), U16At(buf, c3))
    IN  IF HasZoneFlags(protocol_version) THEN read_u32(buf, c4) ELSE c4

RECURSIVE SkipZones(_, _, _, _)
SkipZones(buf, c, n, protocol_version) ==
    IF n = 0 \/ ~c.ok THEN c
    ELSE SkipZones(buf, skip_zone_data(buf, c, protocol_version), n - 1, protocol_version)

(* the loop of lines 420-424: a name and a u32 per LED *)
RECURSIVE ReadLeds(_, _, _)
ReadLeds(buf, c, n) ==
    IF n = 0 \/ ~c.ok THEN c
    ELSE ReadLeds(buf, read_u32(buf, read_string(buf, c)), n - 1)

(* the names pushed by that loop when it succeeds *)
RECURSIVE LedNamesAt(_, _, _)
LedNamesAt(buf, c, n) ==
    IF n = 0 THEN <<>>
    ELSE <<StringAt(buf, c)>> \o LedNamesAt(buf, read_u32(buf, read_string(buf, c)), n - 1)

(* the strings a successful ReadStrings returns *)
RECURSIVE StringsAt(_, _, _)
StringsAt(buf, c, n) ==
    IF n = 0 THEN <<>>
    ELSE <<StringAt(buf, c)>> \o StringsAt(buf, read_string(buf, c), n - 1)

(* lines 399-403: the vendor string, read from version 1 on *)
VendorRead(buf, c, protocol_version) ==
    IF HasVendor(protocol_version) THEN read_string(buf, c) ELSE c

(* lines 408-412: the mode count, the active mode, then the modes *)
ModesRead(buf, c, protocol_version) ==
    LET c7 == read_i32(buf, read_u16(buf, c))
    IN  IF c7.ok THEN SkipModes(buf, c7, U16At(buf, c), protocol_version) ELSE c7

(* lines 414-417: the zone count, then the zones *)
ZonesRead(buf, c, protocol_version) ==
    LET c9 == read_u16(buf, c)
    IN  IF c9.ok THEN SkipZones(buf, c9, U16At(buf, c), protocol_version) ELSE c9

(* lines 419-424: the LED count, then a name and a value per LED *)
LedsRead(buf, c) ==
    LET c11 == read_u16(buf, c)
    IN  IF c11.ok THEN ReadLeds(buf, c11, U16At(buf, c)) ELSE c11

(* lines 430-434: the alt-name count, then the alt-names *)
AltNamesRead(buf, c) ==
    LET c14 == read_u16(buf, c)
    IN  IF c14.ok THEN ReadStrings(buf, c14, U16At(buf, c)) ELSE c14

(* parse_controller_data (lines 389-453): Err, or the DeviceData; pos is   *)
(* where the cursor stands when the function returns.                      *)
ParseControllerData(idx, payload, protocol_version) ==
    LET c1 == read_u32(payload, CursorNew)
        c2 == read_i32(payload, c1)
        c3 == read_string(payload, c2)
        c5 == ReadStrings(payload, VendorRead(payload, c3, protocol_version), 4)
        c8 == ModesRead(payload, c5, protocol_version)
        c10 == ZonesRead(payload, c8, protocol_version)
        c11 == read_u16(payload, c10)
        c13 == SkipColors(payload, LedsRead(payload, c10))
        c14 == read_u16(payload, c13)
        end == IF HasAltNames(protocol_version)
               THEN read_u32(payload, AltNamesRead(payload, c13))
               ELSE c13
        name == StringAt(payload, c2)
        vendor == IF HasVendor(protocol_version) THEN StringAt(payload, c3) ELSE <<>>
    IN  IF ~end.ok THEN [ok |-> FALSE, err |-> ErrParse, pos |-> end.pos]
        ELSE [ok |-> TRUE, err |-> NoErr, pos |-> end.pos,
              device |->
                [idx |-> idx,
                 device_type |-> I32At(payload, c1),
                 display_name |-> IF vendor = <<>> THEN name ELSE vendor \o <<" ">> \o name,
                 vendor |-> vendor,
                 led_names |-> LedNamesAt(payload, c11, U16At(payload, c10)),
                 led_alt_names |-> IF HasAltNames(protocol_version)
                                   THEN StringsAt(payload, c14, U16At(payload, c13))
                                   ELSE <<>>]]

(* Cursor::read_u32 on a payload given as its sequence of 32-bit words. *)
CursorReadU32(payload) ==
    IF Len(payload) >= 1 THEN [ok |-> TRUE, value |-> payload[1]]
    ELSE [ok |-> FALSE, value |-> 0]

(***************************************************************************)
(* State.                                                                  *)
(***************************************************************************)
VARIABLES
    pc,               \* position of the program
    game,             \* the selected game: "typing" or "wordle"
    stream,           \* the TcpStream: "none", "open", "closed"
    sent,             \* every packet written by send_packet, in order
    version,          \* protocol_version of connect
    waitKind,         \* which reply is being read: "none", "negotiate", "count", "data"
    reads,            \* number of packets read so far in this wait
    lastReadId,       \* id of the last packet read in this wait
    waitResult,       \* how the wait ended
    controller_count, \* controller_count of connect
    devices,          \* devices of connect
    kb,               \* the Keyboard, or NoKeyboard
    connectErr,       \* Err of Keyboard::connect, or NoErr
    appErr,           \* Err of run(), or NoErr
    frames,           \* number of rendered ticks of the game loop
    lastLeds,         \* argument of the last set_leds call
    setResult,        \* result of the last set_leds call: "none", "ok", "err"
    exitCause,        \* why the game loop was left
    sessions,         \* number of Keyboard values constructed
    teardowns,        \* number of Keyboard values dropped
    arg,              \* argument of a function called on its own
    result,           \* what that call returned
    locals            \* locals of a game function run on its own

vars == <<pc, game, stream, sent, version, waitKind, reads, lastReadId, waitResult,
          controller_count, devices, kb, connectErr, appErr, frames, lastLeds,
          setResult, exitCause, sessions, teardowns, arg, result, locals>>

connectVars == <<version, waitKind, reads, lastReadId, waitResult, controller_count, devices>>
gameVars == <<frames, lastLeds, setResult, exitCause>>
pureVars == <<arg, result, locals>>

NoArg == [fn |-> "none"]
NoResult == [kind |-> "none"]
NoLocals == [fn |-> "none"]

NoKeyboard == [present |-> FALSE]
NoPacket == -1
NoCount == -1

(* Errors of the games' own collaborators (crossterm), as err.to_string(). *)
ErrArgs == "invalid game arguments"
ErrTerminal == "terminal error"
ErrInput == "input error"
ErrRender == "render error"
(* typing::run_with_config(keyboard: &mut Keyboard, ..) has no form without *)
(* a Keyboard.                                                              *)
ErrTypingNeedsKeyboard == "typing::run_with_config requires a Keyboard"

Init ==
    /\ pc = "run_game"
    /\ game \in {"typing", "wordle"}
    /\ stream = "none"
    /\ sent = <<>>
    /\ version = 0
    /\ waitKind = "none"
    /\ reads = 0
    /\ lastReadId = NoPacket
    /\ waitResult = "none"
    /\ controller_count = NoCount
    /\ devices = <<>>
    /\ kb = NoKeyboard
    /\ connectErr = NoErr
    /\ appErr = NoErr
    /\ frames = 0
    /\ lastLeds = <<>>
    /\ setResult = "none"
    /\ exitCause = "none"
    /\ sessions = 0
    /\ teardowns = 0
    /\ arg = NoArg
    /\ result = NoResult
    /\ locals = NoLocals

(***************************************************************************)
(* main.rs: run_game up to the call of Keyboard::connect.                  *)
(***************************************************************************)
RunGame ==
    /\ pc = "run_game"
    /\ \E argsOk \in BOOLEAN :
         IF argsOk
         THEN pc' = "connect" /\ UNCHANGED appErr
         ELSE pc' = "done" /\ appErr' = ErrArgs
    /\ UNCHANGED <<game, stream, sent, kb, connectErr, sessions, teardowns>>
    /\ UNCHANGED connectVars
    /\ UNCHANGED gameVars
    /\ UNCHANGED pureVars

(***************************************************************************)
(* Keyboard::connect.                                                      *)
(***************************************************************************)
(* An Err return of connect: the stream, if open, is dropped. *)
ConnectFail(err) ==
    /\ connectErr' = err
    /\ stream' = IF stream = "open" THEN "closed" ELSE stream
    /\ pc' = "connect_failed"

(* send_packet inside connect, then continue at next. *)
ConnectSend(device_idx, packet_id, payload, next) ==
    \E ok \in BOOLEAN :
        /\ sent' = Append(sent, Packet(device_idx, packet_id, payload, ok))
        /\ IF ok
           THEN pc' = next /\ UNCHANGED <<stream, connectErr>>
           ELSE ConnectFail(ErrSend(packet_id))

(***************************************************************************)
(* The address of the daemon.  An environment variable is unset, set to a  *)
(* value that is not valid Unicode, or set to a text (a sequence of        *)
(* characters); env::var returns Err in the first two cases.               *)
(***************************************************************************)
DEFAULT_HOST == "127.0.0.1"
DEFAULT_PORT == 6742

EnvUnset == [kind |-> "unset"]
EnvNotUnicode == [kind |-> "not_unicode"]
EnvText(text) == [kind |-> "text", text |-> text]

(* env::var(..) is Ok(value) *)
EnvVarIsOk(v) == v.kind = "text"

DigitValue(c) ==
    CHOOSE d \in 0..9 : <<"0","1","2","3","4","5","6","7","8","9">>[d + 1] = c

NoPort == -1

(* The digits of str::parse::<u16>: any other character or a value above   *)
(* u16::MAX is an error.                                                    *)
RECURSIVE ParseDigits(_, _)
ParseDigits(s, acc) ==
    IF s = <<>> THEN acc
    ELSE IF Head(s) \notin DigitChars THEN NoPort
    ELSE IF acc * 10 + DigitValue(Head(s)) > U16_MAX THEN NoPort
    ELSE ParseDigits(Tail(s), acc * 10 + DigitValue(Head(s)))

(* str::parse::<u16>: an optional "+", then at least one digit; no sign    *)
(* "-", no whitespace.                                                      *)
ParseU16(s) ==
    LET digits == IF s # <<>> /\ Head(s) = "+" THEN Tail(s) ELSE s
    IN  IF digits = <<>> THEN NoPort ELSE ParseDigits(digits, 0)

(* openrgb_addr (lines 140-151); the address as host and port rather than  *)
(* the formatted "host:port".                                               *)
openrgb_addr(env) ==
    LET host == IF EnvVarIsOk(env.host) THEN env.host.text ELSE DEFAULT_HOST
    IN  IF EnvVarIsOk(env.port)
        THEN IF ParseU16(env.port.text) = NoPort
             THEN [ok |-> FALSE, err |-> ErrPort]
             ELSE [ok |-> TRUE, addr |-> [host |-> host, port |-> ParseU16(env.port.text)]]
        ELSE [ok |-> TRUE, addr |-> [host |-> host, port |-> DEFAULT_PORT]]

PortTexts ==
    { <<"6","7","4","2">>, <<"0">>, <<"6","5","5","3","5">>, <<"6","5","5","3","6">>,
      <<>>, <<"-","1">>, <<"+","8","0">>, <<" ","8","0">>, <<"8","0","a">>, <<"+">> }

EnvSamples ==
    [host : {EnvUnset, EnvText("openrgb.local")},
     port : {EnvUnset, EnvNotUnicode} \cup { EnvText(t) : t \in PortTexts }]

ConnectSteps == {"ok", "connect", "read_timeout", "write_timeout"}

(* Lines 49-57 of connect under the environment env, step naming the call  *)
(* that fails if any: the error, the stream, and the addresses             *)
(* TcpStream::connect was called with.                                      *)
OpenStreamOutcome(env, step) ==
    LET a == openrgb_addr(env)
    IN  IF ~a.ok THEN [err |-> a.err, stream |-> "none", connects |-> <<>>]
        ELSE CASE step = "ok" ->
                    [err |-> NoErr, stream |-> "open", connects |-> <<a.addr>>]
               [] step = "connect" ->
                    [err |-> ErrTcpConnect, stream |-> "none", connects |-> <<a.addr>>]
               [] step = "read_timeout" ->
                    [err |-> ErrReadTimeoutSet, stream |-> "closed", connects |-> <<a.addr>>]
               [] step = "write_timeout" ->
                    [err |-> ErrWriteTimeoutSet, stream |-> "closed", connects |-> <<a.addr>>]

(* openrgb_addr, TcpStream::connect and the two timeouts (lines 49-57). *)
OpenStream ==
    /\ pc = "connect"
    /\ \E env \in EnvSamples, step \in ConnectSteps :
         LET o == OpenStreamOutcome(env, step)
         IN  /\ connectErr' = o.err
             /\ stream' = o.stream
             /\ pc' = IF o.err = NoErr THEN "client_name" ELSE "connect_failed"
    /\ UNCHANGED <<game, sent, kb, appErr, sessions, teardowns>>
    /\ UNCHANGED connectVars
    /\ UNCHANGED gameVars
    /\ UNCHANGED pureVars

(* line 59 *)
SendClientName ==
    /\ pc = "client_name"
    /\ ConnectSend(0, PACKET_ID_SET_CLIENT_NAME, <<>>, "negotiate_send")
    /\ UNCHANGED <<game, kb, appErr, sessions, teardowns>>
    /\ UNCHANGED connectVars
    /\ UNCHANGED gameVars
    /\ UNCHANGED pureVars

(* negotiate_protocol, the request (lines 155-161) *)
NegotiateSend ==
    /\ pc = "negotiate_send"
    /\ ConnectSend(0, PACKET_ID_REQUEST_PROTOCOL_VERSION, <<CLIENT_PROTOCOL_MAX>>, "negotiate_read")
    /\ waitKind' = "negotiate"
    /\ reads' = 0
    /\ lastReadId' = NoPacket
    /\ waitResult' = "waiting"
    /\ UNCHANGED <<game, kb, appErr, sessions, teardowns, version, controller_count, devices>>
    /\ UNCHANGED gameVars
    /\ UNCHANGED pureVars

(* negotiate_protocol, one iteration of the read loop (lines 163-175) *)
NegotiateRead ==
    /\ pc = "negotiate_read"
    /\ reads < NEGOTIATE_ATTEMPTS
    /\ \/ \E failure \in ReadFailures :
             LET res == try_read_packet(failure)
             IN  /\ waitResult' = failure
                 /\ UNCHANGED <<reads, lastReadId>>
                 /\ IF res.kind = "None"
                    THEN version' = 0 /\ pc' = "count_send" /\ UNCHANGED <<stream, connectErr>>
                    ELSE ConnectFail(res.err) /\ UNCHANGED version
       \/ \E payload \in {<<>>} \cup {<<v>> : v \in 0..MaxServerVersion} :
             LET server_version == CursorReadU32(payload)
             IN  /\ reads' = reads + 1
                 /\ lastReadId' = PACKET_ID_REQUEST_PROTOCOL_VERSION
                 /\ waitResult' = "matched"
                 /\ IF server_version.ok
                    THEN /\ version' = Min(server_version.value, CLIENT_PROTOCOL_MAX)
                         /\ pc' = "count_send"
                         /\ UNCHANGED <<stream, connectErr>>
                    ELSE ConnectFail(ErrParse) /\ UNCHANGED version
       \/ \E id \in ReplyIds \ {PACKET_ID_REQUEST_PROTOCOL_VERSION} :
             /\ reads' = reads + 1
             /\ lastReadId' = id
             /\ UNCHANGED <<stream, connectErr>>
             /\ IF reads' >= NEGOTIATE_ATTEMPTS
                THEN version' = 0 /\ waitResult' = "exhausted" /\ pc' = "count_send"
                ELSE UNCHANGED <<version, waitResult, pc>>
    /\ UNCHANGED <<game, sent, kb, appErr, sessions, teardowns, waitKind, controller_count, devices>>
    /\ UNCHANGED gameVars
    /\ UNCHANGED pureVars

(* An iteration of a loop that runs once more than EXPECT_ATTEMPTS times. *)
ExpectStepOneMore(expected_id, readSoFar, id) ==
    IF id = expected_id THEN "matched"
    ELSE IF readSoFar + 1 > EXPECT_ATTEMPTS THEN "exhausted"
    ELSE "more"

(* read_packet_expect, one iteration (lines 377-386): the result of the     *)
(* iteration is "more", "err" or "matched".                                 *)
ExpectStep(expected_id, readSoFar, id) ==
    IF id = expected_id THEN "matched"
    ELSE IF readSoFar + 1 >= EXPECT_ATTEMPTS THEN "exhausted"
    ELSE "more"

(* request_controller_count, the request (line 180) *)
CountSend ==
    /\ pc = "count_send"
    /\ ConnectSend(0, PACKET_ID_REQUEST_CONTROLLER_COUNT, <<>>, "count_read")
    /\ waitKind' = "count"
    /\ reads' = 0
    /\ lastReadId' = NoPacket
    /\ waitResult' = "waiting"
    /\ UNCHANGED <<game, kb, appErr, sessions, teardowns, version, controller_count, devices>>
    /\ UNCHANGED gameVars
    /\ UNCHANGED pureVars

(* request_controller_count, the reply (lines 181-183), and the zero check  *)
(* of connect (lines 63-65)                                                 *)
CountRead ==
    /\ pc = "count_read"
    /\ \/ \E failure \in ReadFailures :
             /\ waitResult' = failure
             /\ ConnectFail(read_packet(failure).err)
             /\ UNCHANGED <<reads, lastReadId, controller_count>>
       \/ \E id \in ReplyIds \ {PACKET_ID_REQUEST_CONTROLLER_COUNT} :
             LET step == ExpectStep(PACKET_ID_REQUEST_CONTROLLER_COUNT, reads, id)
             IN  /\ reads' = reads + 1
                 /\ lastReadId' = id
                 /\ UNCHANGED controller_count
                 /\ IF step = "exhausted"
                    THEN /\ waitResult' = "exhausted"
                         /\ ConnectFail(ErrExpected(PACKET_ID_REQUEST_CONTROLLER_COUNT))
                    ELSE UNCHANGED <<waitResult, pc, stream, connectErr>>
       \/ \E payload \in {<<>>} \cup {<<n>> : n \in 0..MaxControllers} :
             LET count == CursorReadU32(payload)
             IN  /\ reads' = reads + 1
                 /\ lastReadId' = PACKET_ID_REQUEST_CONTROLLER_COUNT
                 /\ waitResult' = "matched"
                 /\ IF ~count.ok
                    THEN ConnectFail(ErrParse) /\ UNCHANGED controller_count
                    ELSE /\ controller_count' = count.value
                         /\ IF count.value = 0
                            THEN ConnectFail(ErrZeroControllers)
                            ELSE pc' = "data_send" /\ UNCHANGED <<stream, connectErr>>
    /\ UNCHANGED <<game, sent, kb, appErr, sessions, teardowns, version, waitKind, devices>>
    /\ UNCHANGED gameVars
    /\ UNCHANGED pureVars

(* A request that always carries the client's maximum version. *)
ControllerDataRequestClientMax(protocol_version) == <<CLIENT_PROTOCOL_MAX>>

(* the payload of the controller-data request (lines 192-202): the version  *)
(* as a u32, or nothing when the version is 0                               *)
ControllerDataRequest(protocol_version) ==
    IF protocol_version >= 1 THEN <<protocol_version>> ELSE <<>>

(* request_controller_data, the request for idx = devices.len()             *)
(* (lines 192-202)                                                          *)
DataSend ==
    /\ pc = "data_send"
    /\ ConnectSend(Len(devices), PACKET_ID_REQUEST_CONTROLLER_DATA,
                   ControllerDataRequest(version), "data_read")
    /\ waitKind' = "data"
    /\ reads' = 0
    /\ lastReadId' = NoPacket
    /\ waitResult' = "waiting"
    /\ UNCHANGED <<game, kb, appErr, sessions, teardowns, version, controller_count, devices>>
    /\ UNCHANGED gameVars
    /\ UNCHANGED pureVars

(* A loop that leaves out a controller whose record does not parse and     *)
(* goes on to the selection with the records it has.                        *)
DataParseSkipped ==
    /\ reads' = reads + 1
    /\ lastReadId' = PACKET_ID_REQUEST_CONTROLLER_DATA
    /\ waitResult' = "matched"
    /\ pc' = "select"
    /\ UNCHANGED <<devices, stream, connectErr>>

(* parse_controller_data returns Err (line 206) and connect returns it      *)
(* with `?` (line 70).                                                      *)
DataParseFailed ==
    /\ reads' = reads + 1
    /\ lastReadId' = PACKET_ID_REQUEST_CONTROLLER_DATA
    /\ waitResult' = "matched"
    /\ ConnectFail(ErrParse)
    /\ UNCHANGED devices

(* request_controller_data, the reply (lines 204-206), and the loop of      *)
(* connect (lines 68-71)                                                    *)
DataRead ==
    /\ pc = "data_read"
    /\ \/ \E failure \in ReadFailures :
             /\ waitResult' = failure
             /\ ConnectFail(read_packet(failure).err)
             /\ UNCHANGED <<reads, lastReadId, devices>>
       \/ \E id \in ReplyIds \ {PACKET_ID_REQUEST_CONTROLLER_DATA} :
             LET step == ExpectStep(PACKET_ID_REQUEST_CONTROLLER_DATA, reads, id)
             IN  /\ reads' = reads + 1
                 /\ lastReadId' = id
                 /\ UNCHANGED devices
                 /\ IF step = "exhausted"
                    THEN /\ waitResult' = "exhausted"
                         /\ ConnectFail(ErrExpected(PACKET_ID_REQUEST_CONTROLLER_DATA))
                    ELSE UNCHANGED <<waitResult, pc, stream, connectErr>>
       \/ \* the reply arrives and its payload does not parse
          DataParseFailed
       \/ \E rec \in DaemonDevices :
             /\ reads' = reads + 1
             /\ lastReadId' = PACKET_ID_REQUEST_CONTROLLER_DATA
             /\ waitResult' = "matched"
             /\ devices' = Append(devices, parse_controller_data(Len(devices), rec, version))
             /\ pc' = IF Len(devices') < controller_count THEN "data_send" ELSE "select"
             /\ UNCHANGED <<stream, connectErr>>
    /\ UNCHANGED <<game, sent, kb, appErr, sessions, teardowns, version, waitKind, controller_count>>
    /\ UNCHANGED gameVars
    /\ UNCHANGED pureVars

ConnectFinishPacketsFilteredIdx(devs, device, ok, led_map) ==
    <<Packet(CHOOSE i \in 0..(Len(devs) - 1) : SelectSeq(devs, IsKeyboard)[i + 1] = device,
             PACKET_ID_SET_CUSTOM_MODE, <<>>, ok)>>

ConnectFinishPacketsPartialDrop(devs, device, ok, led_map) ==
    IF ok /\ DOMAIN led_map = {}
    THEN <<Packet(device.idx, PACKET_ID_SET_CUSTOM_MODE, <<>>, ok),
           Packet(device.idx, PACKET_ID_UPDATE_LEDS,
                  UpdateLedsPayload(ZeroBuffer(Len(device.led_names))), TRUE)>>
    ELSE <<Packet(device.idx, PACKET_ID_SET_CUSTOM_MODE, <<>>, ok)>>

(* the packets written by connect after select_keyboard (line 74) *)
ConnectFinishPackets(devs, device, ok, led_map) ==
    <<Packet(device.idx, PACKET_ID_SET_CUSTOM_MODE, <<>>, ok)>>

(* A Keyboard that addresses controller 0, as the requests of the          *)
(* negotiation do.                                                          *)
NewKeyboardControllerZero(device, led_map) ==
    [present |-> TRUE,
     device_idx |-> 0,
     device_name |-> device.display_name,
     led_map |-> led_map,
     led_buffer |-> ZeroBuffer(Len(device.led_names))]

(* the Keyboard value of lines 81-89 *)
NewKeyboard(device, led_map) ==
    [present |-> TRUE,
     device_idx |-> device.idx,
     device_name |-> device.display_name,
     led_map |-> led_map,
     led_buffer |-> ZeroBuffer(Len(device.led_names))]

(* connect, lines 73-89 *)
ConnectFinish ==
    /\ pc = "select"
    /\ LET sel == select_keyboard(devices)
       IN  IF ~sel.ok
           THEN ConnectFail(sel.err) /\ UNCHANGED <<sent, kb, sessions>>
           ELSE \E ok \in BOOLEAN :
                  LET led_map == build_led_map(sel.device.led_names, sel.device.led_alt_names)
                  IN  /\ sent' = sent \o ConnectFinishPackets(devices, sel.device, ok, led_map)
                      /\ IF ~ok
                         THEN ConnectFail(ErrSend(PACKET_ID_SET_CUSTOM_MODE)) /\ UNCHANGED <<kb, sessions>>
                         ELSE IF DOMAIN led_map = {}
                         THEN ConnectFail(ErrNoLedNames) /\ UNCHANGED <<kb, sessions>>
                         ELSE /\ kb' = NewKeyboard(sel.device, led_map)
                              /\ sessions' = sessions + 1
                              /\ pc' = "game_enter"
                              /\ UNCHANGED <<stream, connectErr>>
    /\ UNCHANGED connectVars
    /\ UNCHANGED <<game, appErr, teardowns>>
    /\ UNCHANGED gameVars
    /\ UNCHANGED pureVars

(***************************************************************************)
(* The Keyboard's operations.                                              *)
(***************************************************************************)
NoLed == -1

(* A lookup that falls back to the first LED for a character without an   *)
(* entry.                                                                  *)
LedForCharOrFirst(keyboard, ch) ==
    LET key == ToAsciiUppercase(ch)
    IN  IF key \in DOMAIN keyboard.led_map THEN keyboard.led_map[key] ELSE 0

(* Keyboard::led_for_char *)
led_for_char(keyboard, ch) ==
    LET key == ToAsciiUppercase(ch)
    IN  IF key \in DOMAIN keyboard.led_map THEN keyboard.led_map[key] ELSE NoLed

StreamAfterSendClosing(s, ok) == IF ok THEN s ELSE "closed"

(* send_packet (lines 307-313) maps a failed write to Err and leaves the    *)
(* stream as it is.                                                         *)
StreamAfterSend(s, ok) == s

(* Keyboard::set_leds with the outcome ok of its send_packet *)
SetLeds(leds, ok) ==
    LET buffer == SetLedsBuffer(kb.led_buffer, leds)
    IN  /\ kb' = [kb EXCEPT !.led_buffer = buffer]
        /\ sent' = Append(sent, Packet(kb.device_idx, PACKET_ID_UPDATE_LEDS,
                                       UpdateLedsPayload(buffer), ok))
        /\ stream' = StreamAfterSend(stream, ok)
        /\ lastLeds' = leds
        /\ setResult' = IF ok THEN "ok" ELSE "err"

(* line 125: self.led_buffer.fill(0) *)
DropFrame(led_buffer) == ZeroBuffer(Len(led_buffer))

DropPacketsRetry(device_idx, colors, ok) ==
    IF ok THEN <<Packet(device_idx, PACKET_ID_UPDATE_LEDS, UpdateLedsPayload(colors), TRUE)>>
    ELSE <<Packet(device_idx, PACKET_ID_UPDATE_LEDS, UpdateLedsPayload(colors), FALSE),
           Packet(device_idx, PACKET_ID_UPDATE_LEDS, UpdateLedsPayload(colors), TRUE)>>

DropPacketsNone(device_idx, colors, ok) == <<>>

(* line 126: the packets written by the one send_update_leds of drop *)
DropPackets(device_idx, colors, ok) ==
    <<Packet(device_idx, PACKET_ID_UPDATE_LEDS, UpdateLedsPayload(colors), ok)>>

(* impl Drop for Keyboard, then the drop of its TcpStream; the result of    *)
(* the send is discarded.                                                   *)
DropKeyboard(ok) ==
    /\ sent' = sent \o DropPackets(kb.device_idx, DropFrame(kb.led_buffer), ok)
    /\ kb' = NoKeyboard
    /\ stream' = "closed"
    /\ teardowns' = teardowns + 1

(***************************************************************************)
(* Frames of the games.  build_leds / build_keyboard_leds collect a map    *)
(* from hardware index to color, whose keys all come from led_for_char,    *)
(* and turn it into a list: at most one entry per index, in any order.     *)
(***************************************************************************)
Palette == { [r |-> 0, g |-> 255, b |-> 0] }

LedColor(id, color) == [id |-> id, r |-> color.r, g |-> color.g, b |-> color.b]

LedLists(ids, maxLen) ==
    UNION { [1..n -> {LedColor(id, c) : id \in ids, c \in Palette}] : n \in 0..maxLen }

HasDistinctIds(leds) ==
    \A i, j \in 1..Len(leds) : i # j => leds[i].id # leds[j].id

GameFrames(keyboard) ==
    {leds \in LedLists(Range(keyboard.led_map), MaxListLen) : HasDistinctIds(leds)}

RECURSIVE LivesLeds(_, _, _)
LivesLeds(keyboard, lives, i) ==
    IF i > START_LIVES THEN <<>>
    ELSE LET id == led_for_char(keyboard, CHOOSE d \in DigitChars :
                                   d = <<"0","1","2","3","4","5","6","7","8","9">>[i + 1])
             color == IF i <= lives THEN [r |-> 255, g |-> 0, b |-> 0]
                      ELSE [r |-> 0, g |-> 0, b |-> 0]
         IN  (IF id # NoLed THEN <<LedColor(id, color)>> ELSE <<>>)
             \o LivesLeds(keyboard, lives, i + 1)

(* typing.rs set_finish_leds: the list passed to set_leds *)
TypingFinishLeds(keyboard, lives) ==
    LET space == led_for_char(keyboard, " ")
    IN  LivesLeds(keyboard, lives, 1)
        \o (IF space # NoLed THEN <<LedColor(space, [r |-> 255, g |-> 215, b |-> 0])>> ELSE <<>>)

(* wordle.rs set_finish_leds: the list passed to set_leds, when it is called *)
WordleFinishLeds(keyboard) ==
    <<LedColor(led_for_char(keyboard, " "), [r |-> 255, g |-> 215, b |-> 0])>>

(***************************************************************************)
(* main.rs run_game after connect, and the game functions.                 *)
(***************************************************************************)
(* An Err propagated by `?` out of the game function. *)
GameErr(err, cause) ==
    /\ appErr' = err
    /\ exitCause' = cause
    /\ pc' = "unwind"

(* connect has returned and its caller goes on: the locals of connect are   *)
(* gone.                                                                    *)
ForgetConnect ==
    /\ version' = 0
    /\ waitKind' = "none"
    /\ reads' = 0
    /\ lastReadId' = NoPacket
    /\ waitResult' = "none"
    /\ controller_count' = NoCount
    /\ devices' = <<>>

(* main.rs lines 54-59 and 74-79: the Err arm of connect *)
ConnectFailed ==
    /\ pc = "connect_failed"
    /\ IF game = "wordle"
       THEN pc' = "game_enter" /\ UNCHANGED appErr
       ELSE pc' = "done" /\ appErr' = ErrTypingNeedsKeyboard
    /\ UNCHANGED <<game, stream, sent, kb, connectErr, sessions, teardowns>>
    /\ ForgetConnect
    /\ UNCHANGED gameVars
    /\ UNCHANGED pureVars

(* TerminalGuard::enter (typing.rs 149, wordle.rs 80) *)
EnterGame ==
    /\ pc = "game_enter"
    /\ \E ok \in BOOLEAN :
         IF ok
         THEN pc' = "loop_top" /\ UNCHANGED <<appErr, exitCause>>
         ELSE GameErr(ErrTerminal, "err_terminal")
    /\ UNCHANGED <<game, stream, sent, kb, connectErr, sessions, teardowns, frames, lastLeds, setResult>>
    /\ ForgetConnect
    /\ UNCHANGED pureVars

(* top of the loop: typing.rs 164-169 (deadline or lives == 0),             *)
(* wordle.rs 96-103 (is_game_over)                                          *)
LoopTop ==
    /\ pc = "loop_top"
    /\ \E over \in BOOLEAN :
         IF over
         THEN pc' = "summary" /\ exitCause' = "over"
         ELSE pc' = "input" /\ UNCHANGED exitCause
    /\ UNCHANGED <<game, stream, sent, kb, connectErr, appErr, sessions, teardowns, frames, lastLeds, setResult>>
    /\ UNCHANGED connectVars
    /\ UNCHANGED pureVars

(* handle_input (typing.rs 171-173 and 255-284, wordle.rs 105-113 and 151-222) *)
HandleInput ==
    /\ pc = "input"
    /\ \E res \in {"continue", "quit", "err"} :
         CASE res = "continue" -> pc' = "tick" /\ UNCHANGED <<appErr, exitCause>>
           [] res = "quit" -> pc' = "summary" /\ exitCause' = "quit" /\ UNCHANGED appErr
           [] res = "err" -> GameErr(ErrInput, "err_input")
    /\ UNCHANGED <<game, stream, sent, kb, connectErr, sessions, teardowns, frames, lastLeds, setResult>>
    /\ UNCHANGED connectVars
    /\ UNCHANGED pureVars

(* the rendered tick: typing.rs 219-240, wordle.rs 115-140.  typing calls   *)
(* set_leds on its keyboard; wordle only if it was given one.               *)
Tick ==
    /\ pc = "tick"
    /\ \/ \* last_tick.elapsed() < TICK_MS
          /\ pc' = "loop_top"
          /\ UNCHANGED <<sent, kb, stream, appErr, frames, lastLeds, setResult, exitCause>>
       \/ /\ frames < MaxFrames
          /\ frames' = frames + 1
          /\ IF game = "typing" \/ kb.present
             THEN \E leds \in GameFrames(kb), ok \in BOOLEAN, drawOk \in BOOLEAN :
                    /\ SetLeds(leds, ok)
                    /\ IF ~ok THEN GameErr(ErrSend(PACKET_ID_UPDATE_LEDS), "err_set_leds")
                       ELSE IF ~drawOk THEN GameErr(ErrRender, "err_render")
                       ELSE pc' = "loop_top" /\ UNCHANGED <<appErr, exitCause>>
             ELSE \E drawOk \in BOOLEAN :
                    /\ IF ~drawOk THEN GameErr(ErrRender, "err_render")
                       ELSE pc' = "loop_top" /\ UNCHANGED <<appErr, exitCause>>
                    /\ UNCHANGED <<sent, kb, stream, lastLeds, setResult>>
    /\ UNCHANGED <<game, connectErr, sessions, teardowns>>
    /\ UNCHANGED connectVars
    /\ UNCHANGED pureVars

(* after the loop: draw_summary and set_finish_leds                         *)
(* (typing.rs 243-250, wordle.rs 143-146)                                   *)
Summary ==
    /\ pc = "summary"
    /\ \E drawOk \in BOOLEAN, ok \in BOOLEAN, lives \in 0..START_LIVES :
         IF ~drawOk
         THEN GameErr(ErrRender, "err_render") /\ UNCHANGED <<sent, kb, stream, lastLeds, setResult>>
         ELSE IF game = "typing"
         THEN /\ SetLeds(TypingFinishLeds(kb, lives), ok)
              /\ IF ok THEN pc' = "wait" /\ UNCHANGED <<appErr, exitCause>>
                 ELSE GameErr(ErrSend(PACKET_ID_UPDATE_LEDS), "err_finish_leds")
         ELSE IF kb.present /\ led_for_char(kb, " ") # NoLed
         THEN /\ SetLeds(WordleFinishLeds(kb), ok)
              /\ IF ok THEN pc' = "wait" /\ UNCHANGED <<appErr, exitCause>>
                 ELSE GameErr(ErrSend(PACKET_ID_UPDATE_LEDS), "err_finish_leds")
         ELSE pc' = "wait" /\ UNCHANGED <<sent, kb, stream, lastLeds, setResult, appErr, exitCause>>
    /\ UNCHANGED <<game, connectErr, sessions, teardowns, frames>>
    /\ UNCHANGED connectVars
    /\ UNCHANGED pureVars

(* wait_for_exit / wait_for_space: the user presses SPACE *)
WaitSpace ==
    /\ pc = "wait"
    /\ pc' = "unwind"
    /\ UNCHANGED <<game, stream, sent, kb, connectErr, appErr, sessions, teardowns>>
    /\ UNCHANGED connectVars
    /\ UNCHANGED gameVars
    /\ UNCHANGED pureVars

(* wait_for_exit / wait_for_space: event::poll or event::read fails *)
WaitError ==
    /\ pc = "wait"
    /\ appErr' = ErrInput
    /\ exitCause' = "err_wait"
    /\ pc' = "unwind"
    /\ UNCHANGED <<game, stream, sent, kb, connectErr, sessions, teardowns, frames, lastLeds, setResult>>
    /\ UNCHANGED connectVars
    /\ UNCHANGED pureVars

(* run_game returns: the Keyboard bound in the Ok arm of main.rs goes out   *)
(* of scope and is dropped.                                                 *)
Unwind ==
    /\ pc = "unwind"
    /\ pc' = "done"
    /\ IF kb.present
       THEN \E ok \in BOOLEAN : DropKeyboard(ok)
       ELSE UNCHANGED <<sent, kb, stream, teardowns>>
    /\ UNCHANGED <<game, connectErr, appErr, sessions>>
    /\ UNCHANGED connectVars
    /\ UNCHANGED gameVars
    /\ UNCHANGED pureVars

Next ==
    \/ RunGame
    \/ OpenStream
    \/ SendClientName
    \/ NegotiateSend
    \/ NegotiateRead
    \/ CountSend
    \/ CountRead
    \/ DataSend
    \/ DataRead
    \/ ConnectFinish
    \/ ConnectFailed
    \/ EnterGame
    \/ LoopTop
    \/ HandleInput
    \/ Tick
    \/ Summary
    \/ WaitSpace
    \/ WaitError
    \/ Unwind

Spec == Init /\ [][Next]_vars

(* The steps the program takes by itself; WaitSpace and WaitError are       *)
(* events of the terminal.  The single thread runs on as long as it can.    *)
ProgramStep ==
    \/ RunGame \/ OpenStream \/ SendClientName \/ NegotiateSend \/ NegotiateRead
    \/ CountSend \/ CountRead \/ DataSend \/ DataRead \/ ConnectFinish
    \/ ConnectFailed \/ EnterGame \/ LoopTop \/ HandleInput \/ Tick \/ Summary
    \/ Unwind

LiveSpec == Init /\ [][Next]_vars /\ WF_vars(ProgramStep)

(***************************************************************************)
(* The Keyboard used by an arbitrary caller: any sequence of set_leds      *)
(* calls with any lists, then the drop.                                    *)
(***************************************************************************)
MaxCalls == 3

(* The lists a caller may pass: any ids, in any order, repeated or not,    *)
(* from 0 up to the first id beyond the buffer.                             *)
ApiLeds(keyboard) ==
    LedLists(0..Len(keyboard.led_buffer), MaxListLen)

(* The Keyboards connect returns for a daemon with a single controller. *)
ApiKeyboards ==
    { NewKeyboard(d, build_led_map(d.led_names, d.led_alt_names)) :
        d \in { parse_controller_data(0, rec, CLIENT_PROTOCOL_MAX) : rec \in DaemonDevices } }

InitKeyboard ==
    /\ pc = "api"
    /\ game = "none"
    /\ stream = "open"
    /\ sent = <<>>
    /\ version = 0
    /\ waitKind = "none"
    /\ reads = 0
    /\ lastReadId = NoPacket
    /\ waitResult = "none"
    /\ controller_count = NoCount
    /\ devices = <<>>
    /\ kb \in {k \in ApiKeyboards : DOMAIN k.led_map # {}}
    /\ connectErr = NoErr
    /\ appErr = NoErr
    /\ frames = 0
    /\ lastLeds = <<>>
    /\ setResult = "none"
    /\ exitCause = "none"
    /\ sessions = 1
    /\ teardowns = 0
    /\ arg = NoArg
    /\ result = NoResult
    /\ locals = NoLocals

ApiSetLeds ==
    /\ pc = "api"
    /\ frames < MaxCalls
    /\ stream = "open"
    /\ frames' = frames + 1
    /\ \E leds \in ApiLeds(kb), ok \in BOOLEAN : SetLeds(leds, ok)
    /\ UNCHANGED <<pc, game, connectErr, appErr, exitCause, sessions, teardowns>>
    /\ UNCHANGED connectVars
    /\ UNCHANGED pureVars

ApiDrop ==
    /\ pc = "api"
    /\ pc' = "done"
    /\ \E ok \in BOOLEAN : DropKeyboard(ok)
    /\ UNCHANGED <<game, connectErr, appErr, sessions>>
    /\ UNCHANGED connectVars
    /\ UNCHANGED gameVars
    /\ UNCHANGED pureVars

NextKeyboard == ApiSetLeds \/ ApiDrop

SpecKeyboard == InitKeyboard /\ [][NextKeyboard]_vars

(***************************************************************************)
(* The functions of the protocol client called on their own, on arguments  *)
(* drawn from bounded sets.                                                *)
(***************************************************************************)
MaxSelectLen == 3

N_corsairX == <<"c","O","R","s","a","i","r"," ","X">>

(* The replies a daemon may give for one controller: those of               *)
(* DaemonDevices and a keyboard that names the brand in its name only.      *)
SelectRecords ==
    DaemonDevices \cup
    { [device_type |-> DEVICE_TYPE_KEYBOARD, name |-> N_corsairX, vendor |-> V_Acme,
       led_names |-> <<N_KeyA>>, led_alt_names |-> <<>>] }

(* devices as connect collects it (lines 67-71): the records of controllers *)
(* 0, 1, .. parsed under one protocol version.                              *)
ParsedList(recs, v) ==
    [i \in 1..Len(recs) |-> parse_controller_data(i - 1, recs[i], v)]

SelectArgs ==
    { [fn |-> "select_keyboard", devices |-> ParsedList(recs, v)] :
        recs \in UNION { [1..n -> SelectRecords] : n \in 0..MaxSelectLen },
        v \in {0, CLIENT_PROTOCOL_MAX} }

MaxNames == 4
MaxAltNames == 2

N_KEY_B == <<"K","E","Y"," ","B">>
N_space_bar == <<"s","p","a","c","e"," ","b","a","r">>
N_a == <<"a">>

PrimaryNames == {N_KeyA, N_KEY_B, N_space_bar, N_Key1}
AltNames == {N_a, N_Logo}

MapArgs ==
    { [fn |-> "build_led_map", led_names |-> names, led_alt_names |-> alts] :
        names \in UNION { [1..n -> PrimaryNames] : n \in 0..MaxNames },
        alts \in UNION { [1..n -> AltNames] : n \in 0..MaxAltNames } }

(* The values a color channel (u8) is drawn from. *)
ChannelSamples == {0, 1, 128, 255}

RgbArgs ==
    { [fn |-> "rgb_to_u32", color |-> [r |-> r, g |-> g, b |-> b]] :
        r \in ChannelSamples, g \in ChannelSamples, b \in ChannelSamples }

N_KeyQ == <<"K","e","y",":"," ","Q">>
N_KeyW == <<"K","e","y",":"," ","W">>

(* The replies of the keyboards set_leds is called for: the keyboards of   *)
(* DaemonDevices and one with the LEDs "Key: Q", "Key: W", "space".        *)
SetLedsRecords ==
    { rec \in DaemonDevices : rec.device_type = DEVICE_TYPE_KEYBOARD } \cup
    { [device_type |-> DEVICE_TYPE_KEYBOARD, name |-> <<"Q">>, vendor |-> V_Corsair,
       led_names |-> <<N_KeyQ, N_KeyW, N_Space>>, led_alt_names |-> <<>>] }

ColorSamples ==
    { [r |-> 0, g |-> 0, b |-> 0], [r |-> 0, g |-> 255, b |-> 0], [r |-> 255, g |-> 128, b |-> 1] }

(* led_buffer as an earlier call may have left it *)
BufferSamples(n) == { ZeroBuffer(n), [i \in 1..n |-> rgb_to_u32([r |-> 1, g |-> 1, b |-> 1])] }

(* A call of set_leds: the device the Keyboard was built from at connect,  *)
(* the Keyboard (its buffer as an earlier call left it), the list and the  *)
(* outcome ok of the write.  The ids go up to the buffer length, the first *)
(* id out of range.                                                        *)
SetLedsArgs ==
    { [fn |-> "set_leds", device |-> c.d,
       keyboard |-> [NewKeyboard(c.d, build_led_map(c.d.led_names, c.d.led_alt_names))
                        EXCEPT !.led_buffer = c.buf],
       leds |-> c.leds, ok |-> c.ok] :
        c \in UNION { UNION { [d : {d}, buf : BufferSamples(Len(d.led_names)),
                               leds : UNION { [1..n -> { LedColor(id, col) :
                                                          id \in 0..Len(d.led_names),
                                                          col \in ColorSamples }] :
                                              n \in 0..MaxListLen },
                               ok : BOOLEAN] :
                              d \in { parse_controller_data(idx, rec, CLIENT_PROTOCOL_MAX) :
                                        idx \in {0, 1} } } :
                      rec \in SetLedsRecords } }

(***************************************************************************)
(* Controller-data payloads as a daemon of a given protocol version writes *)
(* them.  A string is its length with the terminating NUL (u16), its bytes *)
(* and the NUL.                                                            *)
(***************************************************************************)
ByteOfChar(ch) == CHOOSE b \in 32..126 : AsciiTable[b - 31] = ch

WireString(chars) ==
    Le16(Len(chars) + 1) \o [i \in 1..Len(chars) |-> ByteOfChar(chars[i])] \o <<0>>

RECURSIVE Repeat(_, _)
Repeat(bytes, n) == IF n = 0 THEN <<>> ELSE bytes \o Repeat(bytes, n - 1)

(* a u32 field the parser skips: the bytes k, k, k, 0 *)
Filler(k) == Le32(k * 65793)

(* one mode with one color *)
WireMode(v) ==
    WireString(<<"M">>) \o Repeat(Filler(1), 4)
        \o (IF v >= 3 THEN Repeat(Filler(2), 2) ELSE <<>>)
        \o Repeat(Filler(3), 3)
        \o (IF v >= 3 THEN Filler(4) ELSE <<>>)
        \o Repeat(Filler(5), 2)
        \o Le16(1) \o Filler(6)

WireSegment == WireString(<<"S">>) \o Repeat(Filler(7), 3)

(* a zone with matrix_len bytes of matrix data and a number of segments *)
WireZone(zone, v) ==
    WireString(<<"Z">>) \o Repeat(Filler(8), 4)
        \o Le16(zone.matrix_len) \o Repeat(<<9>>, zone.matrix_len)
        \o (IF v >= 4 THEN Le16(zone.segments) \o Repeat(WireSegment, zone.segments) ELSE <<>>)
        \o (IF v >= 5 THEN Filler(10) ELSE <<>>)

RECURSIVE WireZones(_, _)
WireZones(zones, v) ==
    IF zones = <<>> THEN <<>> ELSE WireZone(Head(zones), v) \o WireZones(Tail(zones), v)

RECURSIVE WireLeds(_)
WireLeds(names) ==
    IF names = <<>> THEN <<>> ELSE WireString(Head(names)) \o Filler(11) \o WireLeds(Tail(names))

RECURSIVE WireStrings(_)
WireStrings(names) ==
    IF names = <<>> THEN <<>> ELSE WireString(Head(names)) \o WireStrings(Tail(names))

(* the record after its data_size field *)
WireRecordBody(rec, v) ==
    Le32(rec.device_type) \o WireString(rec.name)
        \o (IF v >= 1 THEN WireString(rec.vendor) ELSE <<>>)
        \o WireString(<<"d">>) \o WireString(<<"1">>) \o WireString(<<>>) \o WireString(<<"/">>)
        \o Le16(rec.modes) \o Filler(14) \o Repeat(WireMode(v), rec.modes)
        \o Le16(Len(rec.zones)) \o WireZones(rec.zones, v)
        \o Le16(Len(rec.led_names)) \o WireLeds(rec.led_names)
        \o Le16(rec.colors) \o Repeat(Filler(12), rec.colors)
        \o (IF v >= 5
            THEN Le16(Len(rec.led_alt_names)) \o WireStrings(rec.led_alt_names) \o Filler(13)
            ELSE <<>>)

WireRecord(rec, v) == Le32(4 + Len(WireRecordBody(rec, v))) \o WireRecordBody(rec, v)

MaxZones == 1

ModeCounts == {0, 2}
MatrixLens == {0, 4, 8, 12}
SegmentCounts == {0, 1}

ZoneSamples == [matrix_len : MatrixLens, segments : SegmentCounts]

RecordSamples ==
    [device_type : {DEVICE_TYPE_KEYBOARD}, name : {<<"K">>}, vendor : {V_Corsair},
     modes : ModeCounts,
     zones : UNION { [1..n -> ZoneSamples] : n \in 0..MaxZones },
     led_names : {<<>>, <<N_KeyA, N_Space>>},
     colors : {1},
     led_alt_names : {<<>>, <<N_AltB>>}]

(* a payload cut short, for the reads that run out of bytes *)
ParseArgs ==
    { [fn |-> "parse_controller_data", idx |-> 1, rec |-> rec, protocol_version |-> v,
       cut |-> cut,
       payload |-> SubSeq(WireRecord(rec, v), 1, Len(WireRecord(rec, v)) - cut)] :
        rec \in RecordSamples, v \in 0..CLIENT_PROTOCOL_MAX, cut \in {0, 1} }

MaxBufLen == 4

BufSamples ==
    UNION { [1..n -> {0, 2, 65}] : n \in 0..MaxBufLen } \cup { <<255, 255, 255, 255>> }

CursorOps == {"read_u16", "read_u32", "read_i32", "read_string", "skip"}

(* A read on a cursor that stands anywhere in its buffer; len is the       *)
(* argument of skip.  A u32 above i32::MAX is left to read_i32.            *)
CursorArgs ==
    { a \in UNION { [fn : {"cursor"}, op : CursorOps, buf : {buf},
                     pos : 0..Len(buf), len : 0..(Len(buf) + 1)] : buf \in BufSamples } :
        /\ a.op # "skip" => a.len = 0
        /\ (a.op = "read_u32" /\ Len(a.buf) - a.pos >= 4) => a.buf[a.pos + 4] < 128 }

MaxPayloadLen == 2

PayloadSamples == UNION { [1..n -> {0, 255}] : n \in 0..MaxPayloadLen }

(* Packets as a peer writes them. *)
WirePackets ==
    { SendPacketBytes(device_idx, packet_id, payload) :
        device_idx \in {0, 1},
        packet_id \in ReplyIds \cup {PACKET_ID_UPDATE_LEDS},
        payload \in PayloadSamples }

(* What a stream may deliver: a packet cut anywhere, a packet with one     *)
(* byte of its magic changed, a packet followed by the start of the next.  *)
StreamSamples ==
    UNION { { SubSeq(p, 1, k) : k \in 0..Len(p) }
            \cup { [p EXCEPT ![i] = 111] : i \in 1..4 }
            \cup { p \o <<79>> } : p \in WirePackets }

ReadArgs ==
    { [fn |-> fn, bytes |-> bytes, ending |-> ending] :
        fn \in {"read_packet", "try_read_packet"},
        bytes \in StreamSamples,
        ending \in {"timeout", "eof"} }

ConnectOpenArgs ==
    { [fn |-> "connect", env |-> env, step |-> step] :
        env \in EnvSamples, step \in ConnectSteps }

(***************************************************************************)
(* The games' frames.  A HashMap<u32, _> is a function from the hardware   *)
(* indices it holds.                                                       *)
(***************************************************************************)
Rgb(r, g, b) == [r |-> r, g |-> g, b |-> b]

(* map.insert(key, value) *)
Insert(map, key, value) == (key :> value) @@ map

(* map.into_iter().map(..).collect(): one LedColor per key, in the order   *)
(* the HashMap yields them, which is not determined; the list as a set.    *)
CollectLeds(map) == { LedColor(id, map[id]) : id \in DOMAIN map }

(* A priority that does not tell the colors apart. *)
PriorityFlat(color) == 0

(* wordle.rs priority *)
priority(color) ==
    IF color = Rgb(0, 255, 0) THEN 3
    ELSE IF color = Rgb(255, 215, 0) THEN 2
    ELSE IF color = Rgb(255, 0, 0) THEN 1
    ELSE 0

(* the match of apply_attempt_colors (wordle.rs 408-412) *)
StateColor(state) ==
    CASE state = "Correct" -> Rgb(0, 255, 0)
      [] state = "Present" -> Rgb(255, 215, 0)
      [] state = "Absent" -> Rgb(255, 0, 0)

(* The loop of apply_attempt_colors from the i-th pair of                  *)
(* guess.chars().zip(states.iter()) on.                                    *)
RECURSIVE ApplyAttemptFrom(_, _, _, _)
ApplyAttemptFrom(map, keyboard, attempt, i) ==
    IF i > Min(Len(attempt.guess), Len(attempt.states)) THEN map
    ELSE LET id == led_for_char(keyboard, attempt.guess[i])
             color == StateColor(attempt.states[i])
             entered == OrInsert(map, id, color)
         IN  ApplyAttemptFrom(
                 IF id = NoLed THEN map
                 ELSE IF priority(color) > priority(entered[id])
                      THEN Insert(entered, id, color)
                      ELSE entered,
                 keyboard, attempt, i + 1)

apply_attempt_colors(map, keyboard, attempt) == ApplyAttemptFrom(map, keyboard, attempt, 1)

(* The loop of apply_letter_baseline over 'a'..='z' from the i-th letter on. *)
RECURSIVE LetterBaselineFrom(_, _, _)
LetterBaselineFrom(map, keyboard, i) ==
    IF i > 26 THEN map
    ELSE LET id == led_for_char(keyboard, LowerChars[i])
         IN  LetterBaselineFrom(IF id = NoLed THEN map
                                ELSE OrInsert(map, id, Rgb(255, 255, 255)),
                                keyboard, i + 1)

apply_letter_baseline(map, keyboard) == LetterBaselineFrom(map, keyboard, 1)

SEQ_STEP_MS == 220
SEQ_OFF_MS == 120
SEQ_PAUSE_MS == 2000

(* A window that opens when the first one closes. *)
StepWindowLate(step_pos) == step_pos >= SEQ_OFF_MS

(* wordle.rs 444: the part of a step in which its letter is selected *)
StepWindowOpen(step_pos) == step_pos < SEQ_OFF_MS

(* wordle.rs blink_sequence_char, start.elapsed().as_millis() given as     *)
(* elapsed_ms; NoChar for None.                                            *)
blink_sequence_char(word, elapsed_ms) ==
    IF word = <<>> THEN NoChar
    ELSE LET seq_len == SEQ_STEP_MS * Len(word)
             cycle == seq_len + SEQ_PAUSE_MS
             elapsed == elapsed_ms % cycle
             idx == elapsed \div SEQ_STEP_MS
             step_pos == elapsed % SEQ_STEP_MS
         IN  IF elapsed >= seq_len THEN NoChar
             ELSE IF StepWindowOpen(step_pos)
                  THEN (IF idx < Len(word) THEN word[idx + 1] ELSE NoChar)
                  ELSE NoChar

MAX_ATTEMPTS == 6
BLINK_MS == 700

(* map.remove(&key) *)
Remove(map, key) == [k \in (DOMAIN map) \ {key} |-> map[k]]

(* wordle.rs attempt_key_char *)
attempt_key_char(index) ==
    IF index \in 0..5 THEN <<"1", "2", "3", "4", "5", "6">>[index + 1] ELSE "0"

CountOf(states, state) == Cardinality({ i \in 1..Len(states) : states[i] = state })

(* wordle.rs attempt_status_color, start.elapsed().as_millis() given as    *)
(* elapsed_ms                                                              *)
attempt_status_color(attempt, elapsed_ms) ==
    LET greens == CountOf(attempt.states, "Correct")
        yellows == CountOf(attempt.states, "Present")
        reds == CountOf(attempt.states, "Absent")
        sum == greens + yellows + reds
        total == IF sum > 1 THEN sum ELSE 1
        cycle == BLINK_MS * 3
        pos == elapsed_ms % cycle
        green_window == (cycle * greens) \div total
        yellow_window == (cycle * yellows) \div total
    IN  IF attempt.is_win THEN Rgb(0, 255, 0)
        ELSE IF greens = 0
        THEN (IF yellows > 0 THEN Rgb(255, 140, 0) ELSE Rgb(255, 0, 0))
        ELSE IF pos < green_window THEN Rgb(0, 255, 0)
        ELSE IF pos < green_window + yellow_window THEN Rgb(255, 215, 0)
        ELSE Rgb(0, 0, 0)

(* The loop of apply_current_guess from the i-th letter on. *)
RECURSIVE CurrentGuessFrom(_, _, _, _)
CurrentGuessFrom(map, keyboard, guess, i) ==
    IF i > Len(guess) THEN map
    ELSE LET id == led_for_char(keyboard, guess[i])
         IN  CurrentGuessFrom(IF id = NoLed THEN map
                              ELSE Insert(map, id, Rgb(80, 140, 255)),
                              keyboard, guess, i + 1)

(* wordle.rs apply_current_guess *)
apply_current_guess(map, keyboard, guess) == CurrentGuessFrom(map, keyboard, guess, 1)

(* build_keyboard_leds 320-330: the status keys, from attempt_idx on *)
RECURSIVE StatusKeysFrom(_, _, _, _, _)
StatusKeysFrom(map, keyboard, attempts, elapsed_ms, attempt_idx) ==
    IF attempt_idx >= MAX_ATTEMPTS THEN map
    ELSE LET id == led_for_char(keyboard, attempt_key_char(attempt_idx))
             color == IF attempt_idx < Len(attempts)
                      THEN attempt_status_color(attempts[attempt_idx + 1], elapsed_ms)
                      ELSE Rgb(0, 0, 0)
         IN  StatusKeysFrom(IF id = NoLed THEN map ELSE Insert(map, id, color),
                            keyboard, attempts, elapsed_ms, attempt_idx + 1)

(* build_keyboard_leds 332-343: the key of the attempt being typed *)
CurrentAttemptKey(map, keyboard, attempts, blink_on, elapsed_ms) ==
    LET current_attempt == Len(attempts)
        id == led_for_char(keyboard, attempt_key_char(current_attempt))
    IN  IF current_attempt >= MAX_ATTEMPTS \/ id = NoLed THEN map
        ELSE IF blink_on THEN Insert(map, id, Rgb(255, 255, 255))
        ELSE IF current_attempt < Len(attempts)
        THEN Insert(map, id, attempt_status_color(attempts[current_attempt + 1], elapsed_ms))
        ELSE Remove(map, id)

(* build_keyboard_leds 345-350: the key of the attempt under review *)
SelectedAttemptKey(map, keyboard, attempts, selected_attempt) ==
    LET id == led_for_char(keyboard, attempt_key_char(selected_attempt))
    IN  IF selected_attempt < Len(attempts) /\ selected_attempt # Len(attempts) /\ id # NoLed
        THEN Insert(map, id, Rgb(255, 255, 255))
        ELSE map

(* build_keyboard_leds 352-360: the letters *)
LetterKeys(map, keyboard, attempts, current_guess, selected_attempt) ==
    IF selected_attempt < Len(attempts)
    THEN apply_attempt_colors(map, keyboard, attempts[selected_attempt + 1])
    ELSE LET baseline == apply_letter_baseline(map, keyboard)
             last == IF attempts # <<>>
                     THEN apply_attempt_colors(baseline, keyboard, attempts[Len(attempts)])
                     ELSE baseline
         IN  apply_current_guess(last, keyboard, current_guess)

(* build_keyboard_leds 362-368; NoWord for None *)
NoWord == <<"<none>">>

BlinkWord(attempts, current_guess, selected_attempt) ==
    IF selected_attempt < Len(attempts) THEN attempts[selected_attempt + 1].guess
    ELSE IF current_guess # <<>> THEN current_guess
    ELSE IF attempts # <<>> THEN attempts[Len(attempts)].guess
    ELSE NoWord

(* The character build_keyboard_leds turns off at this instant. *)
BlinkChar(attempts, current_guess, selected_attempt, elapsed_ms) ==
    LET word == BlinkWord(attempts, current_guess, selected_attempt)
    IN  IF word = NoWord THEN NoChar ELSE blink_sequence_char(word, elapsed_ms)

(* build_keyboard_leds up to line 360 *)
KeyboardLedsBeforeBlink(keyboard, attempts, current_guess, selected_attempt, blink_on, elapsed_ms) ==
    LET status == StatusKeysFrom(EmptyMap, keyboard, attempts, elapsed_ms, 0)
        current == CurrentAttemptKey(status, keyboard, attempts, blink_on, elapsed_ms)
        selected == SelectedAttemptKey(current, keyboard, attempts, selected_attempt)
    IN  LetterKeys(selected, keyboard, attempts, current_guess, selected_attempt)

(* wordle.rs build_keyboard_leds: the map it collects; every              *)
(* start.elapsed() of one call reads the same millisecond.                 *)
build_keyboard_leds(keyboard, attempts, current_guess, selected_attempt, blink_on, elapsed_ms) ==
    LET map == KeyboardLedsBeforeBlink(keyboard, attempts, current_guess,
                                       selected_attempt, blink_on, elapsed_ms)
        ch == BlinkChar(attempts, current_guess, selected_attempt, elapsed_ms)
        id == led_for_char(keyboard, ch)
    IN  IF ch # NoChar /\ id # NoLed THEN Insert(map, id, Rgb(0, 0, 0)) ELSE map

(* An f32 as the exact fraction num / den, den > 0. *)
Frac(num, den) == [num |-> num, den |-> den]

FracLess(a, b) == a.num * b.den < b.num * a.den

FracSub(a, b) == Frac(a.num * b.den - b.num * a.den, a.den * b.den)

(* a / b for b > 0 *)
FracDiv(a, b) == Frac(a.num * b.den, a.den * b.num)

(* f32::clamp(0.0, 1.0) *)
Clamp01(a) ==
    IF a.num < 0 THEN Frac(0, 1) ELSE IF a.num > a.den THEN Frac(1, 1) ELSE a

(* `as u8`: the fraction is cut off toward zero and kept within 0..255 *)
AsU8(a) ==
    IF a.num <= 0 THEN 0 ELSE Min(255, a.num \div a.den)

(* A lerp that runs from b to a. *)
LerpFromEnd(a, b, t) == Frac(b * t.den + (a - b) * t.num, t.den)

(* typing.rs lerp, a and b whole numbers *)
lerp(a, b, t) == Frac(a * t.den + (b - a) * t.num, t.den)

(* typing.rs lerp_color *)
lerp_color(start, end, t) ==
    LET tc == Clamp01(t)
    IN  Rgb(AsU8(lerp(start.r, end.r, tc)),
            AsU8(lerp(start.g, end.g, tc)),
            AsU8(lerp(start.b, end.b, tc)))

(* typing.rs color_for_urgency *)
color_for_urgency(progress) ==
    LET p == Clamp01(progress)
        green == Rgb(0, 255, 0)
        yellow == Rgb(255, 255, 0)
        orange == Rgb(255, 128, 0)
        red == Rgb(255, 0, 0)
    IN  IF FracLess(p, Frac(33, 100))
        THEN lerp_color(green, yellow, FracDiv(p, Frac(33, 100)))
        ELSE IF FracLess(p, Frac(66, 100))
        THEN lerp_color(yellow, orange, FracDiv(FracSub(p, Frac(33, 100)), Frac(33, 100)))
        ELSE lerp_color(orange, red, FracDiv(FracSub(p, Frac(66, 100)), Frac(34, 100)))

(* typing.rs 527-533: the urgency of a word at `now`, times in              *)
(* milliseconds; saturating_duration_since gives 0 for a word spawned      *)
(* after `now`.                                                            *)
Urgency(word, now) ==
    LET age == IF now > word.spawned_at THEN now - word.spawned_at ELSE 0
    IN  IF word.ttl = 0 THEN Frac(1, 1) ELSE Clamp01(Frac(age, word.ttl))

(* The inner loop of build_leds (typing.rs 535-542) from the i-th          *)
(* character of the word on.                                               *)
RECURSIVE WordLedsFrom(_, _, _, _, _)
WordLedsFrom(map, keyboard, text, request, i) ==
    IF i > Len(text) THEN map
    ELSE LET id == led_for_char(keyboard, text[i])
             entered == OrInsert(map, id, request)
         IN  WordLedsFrom(
                 IF id = NoLed THEN map
                 ELSE IF FracLess(entered[id].urgency, request.urgency)
                      THEN Insert(entered, id, request)
                      ELSE entered,
                 keyboard, text, request, i + 1)

(* The outer loop of build_leds (typing.rs 526-543) from the k-th word on. *)
RECURSIVE WordsLedsFrom(_, _, _, _, _)
WordsLedsFrom(map, keyboard, words, now, k) ==
    IF k > Len(words) THEN map
    ELSE LET urgency == Urgency(words[k], now)
             request == [color |-> color_for_urgency(urgency), urgency |-> urgency]
         IN  WordsLedsFrom(WordLedsFrom(map, keyboard, words[k].text, request, 1),
                           keyboard, words, now, k + 1)

DigitChar(i) == <<"0","1","2","3","4","5","6","7","8","9">>[i + 1]

(* The lives loop of build_leds (typing.rs 545-552) from digit i on. *)
RECURSIVE LivesLedsFrom(_, _, _, _)
LivesLedsFrom(map, keyboard, lives, i) ==
    IF i > START_LIVES THEN map
    ELSE LET id == led_for_char(keyboard, DigitChar(i))
             color == IF i <= lives THEN Rgb(255, 0, 0) ELSE Rgb(0, 0, 0)
         IN  LivesLedsFrom(IF id = NoLed THEN map
                           ELSE Insert(map, id, [color |-> color, urgency |-> Frac(2, 1)]),
                           keyboard, lives, i + 1)

(* typing.rs build_leds: the map it collects, each index with its color *)
build_leds(keyboard, words, lives, now) ==
    LET map == LivesLedsFrom(WordsLedsFrom(EmptyMap, keyboard, words, now, 1),
                             keyboard, lives, 1)
    IN  [id \in DOMAIN map |-> map[id].color]

(***************************************************************************)
(* Calls of the games' frame functions.  The keyboard has the LEDs         *)
(* "Key: Q", "Key: W", "Key1" and "space"; no key is named Z.              *)
(***************************************************************************)
GameKeyboardDevice ==
    [idx |-> 0, device_type |-> DEVICE_TYPE_KEYBOARD, name |-> <<"Q">>, vendor |-> V_Corsair,
     display_name |-> <<"Q">>,
     led_names |-> <<N_KeyQ, N_KeyW, N_Key1, N_Space>>, led_alt_names |-> <<>>]

GameKeyboard ==
    NewKeyboard(GameKeyboardDevice,
                build_led_map(GameKeyboardDevice.led_names, GameKeyboardDevice.led_alt_names))

MaxGuessLen == 3

LetterStates == {"Correct", "Present", "Absent"}

(* An attempt as handle_input records it: lower-case letters, one state    *)
(* per letter.  The guesses start with q.                                  *)
AttemptSamples ==
    UNION { { [guess |-> g, states |-> st, is_win |-> \A i \in 1..n : st[i] = "Correct"] :
                g \in { w \in [1..n -> {"q", "w", "z"}] : w[1] = "q" },
                st \in [1..n -> LetterStates] } :
            n \in 1..MaxGuessLen }

(* The map as build_keyboard_leds has it when it calls                     *)
(* apply_attempt_colors: without or with the white baseline.               *)
AttemptColorsArgs ==
    { [fn |-> "apply_attempt_colors", keyboard |-> GameKeyboard, map |-> m, attempt |-> a] :
        m \in {EmptyMap, apply_letter_baseline(EmptyMap, GameKeyboard)},
        a \in AttemptSamples }

MaxWordList == 2

(* The instant of the frame, in milliseconds. *)
FrameNow == 1000

(* Words on screen: urgency 1/2, 1/10, 1 (no time to live) and 0          *)
(* (spawned after the instant of the frame).                               *)
WordSamples ==
    { [text |-> t, spawned_at |-> w[1], ttl |-> w[2]] :
        t \in {<<"q", "w">>, <<"z", "q">>},
        w \in {<<0, 2000>>, <<900, 1000>>, <<0, 0>>, <<1500, 1000>>} }

BuildLedsArgs ==
    { [fn |-> "build_leds", keyboard |-> GameKeyboard, words |-> ws, lives |-> l,
       now |-> FrameNow] :
        ws \in UNION { [1..n -> WordSamples] : n \in 0..MaxWordList },
        l \in {0, 1, START_LIVES} }

UrgencySteps == 500

(* The urgencies color_for_urgency is called with: k / UrgencySteps from   *)
(* below 0 to above 1, and the segment boundaries as the source writes     *)
(* them.                                                                   *)
UrgencySamples ==
    { Frac(k, UrgencySteps) : k \in (0 - 25)..(UrgencySteps + 25) }
        \cup { Frac(33, 100), Frac(66, 100) }

UrgencyArgs == { [fn |-> "color_for_urgency", progress |-> p] : p \in UrgencySamples }

MaxElapsedSteps == 150

(* Milliseconds since the start of the game: the first and the last        *)
(* millisecond of every stretch of 20 ms, so both sides of every multiple  *)
(* of SEQ_OFF_MS, SEQ_STEP_MS and SEQ_PAUSE_MS up to the bound.            *)
ElapsedSamples == { 20 * k + d : k \in 0..MaxElapsedSteps, d \in {0, 19} }

BlinkWords == { <<>>, <<"q">>, <<"q", "w">>, <<"w", "q", "q">> }

BlinkArgs ==
    { [fn |-> "blink_sequence_char", word |-> w, elapsed_ms |-> e] :
        w \in BlinkWords, e \in ElapsedSamples }

MaxAttemptList == 2

(* The attempts on the board: all wrong, mixed with a letter that has no   *)
(* key, and a win.                                                         *)
BoardAttempts ==
    { [guess |-> <<"w", "w">>, states |-> <<"Absent", "Absent">>, is_win |-> FALSE],
      [guess |-> <<"q", "z", "w">>, states |-> <<"Correct", "Present", "Absent">>,
       is_win |-> FALSE],
      [guess |-> <<"q", "w">>, states |-> <<"Correct", "Correct">>, is_win |-> TRUE] }

(* Calls of build_keyboard_leds as the loop of run_with_keyboard makes     *)
(* them (wordle.rs 96-125): selected_attempt is at most attempts.len().    *)
BuildKeyboardLedsArgs ==
    UNION { { [fn |-> "build_keyboard_leds", keyboard |-> GameKeyboard, attempts |-> as,
               current_guess |-> g, selected_attempt |-> sel, blink_on |-> b,
               elapsed_ms |-> e] :
                g \in {<<>>, <<"q", "z">>},
                sel \in 0..Len(as),
                b \in BOOLEAN,
                e \in {0, 100, 130, 230, 700, 1500, 2200} } :
            as \in UNION { [1..n -> BoardAttempts] : n \in 0..MaxAttemptList } }

MaxShortName == 3

(* LED names: every text of up to MaxShortName characters over a letter in *)
(* both cases, a digit, the colon, the blank and the dash, and names as    *)
(* keyboards report them.                                                  *)
LedNameSamples ==
    UNION { [1..n -> {"k", "A", "1", ":", " ", "-"}] : n \in 0..MaxShortName } \cup
    { N_KeyA, N_KEY_B, N_Key1, N_space_bar, N_Logo, N_a,
      <<"B","a","c","k","s","p","a","c","e">>,
      <<"K","e","y",":"," ","S","p","a","c","e">>,
      <<"K","e","y",":"," ","E","n","t","e","r">>,
      <<"K","e","y",":"," ","F","1">>,
      <<"K","e","y",":"," ","-">>,
      <<" ","k","e","y",":"," "," ","q"," ">>,
      <<"K","e","y","p","a","d"," ","5">>,
      <<"K","e","y",":">>,
      <<"L","e","d"," ","x",".","y">>,
      <<"k","e","y","K","E","Y"," ","7">> }

ExtractArgs == { [fn |-> "extract_char", name |-> n] : n \in LedNameSamples }

(* wordle.rs evaluate_guess, first pass (241-247): Correct where the       *)
(* letters agree.                                                          *)
FirstPass(secret, guess) ==
    [i \in 1..Len(guess) |->
        IF i <= Len(secret) /\ guess[i] = secret[i] THEN "Correct" ELSE "Absent"]

(* A count of every occurrence of ch in the secret. *)
RemainingOfWholeSecret(secret, guess, ch) ==
    Cardinality({ i \in 1..Len(secret) : secret[i] = ch })

(* remaining (238-251): how often ch is in the secret at a position that   *)
(* is not Correct.                                                         *)
RemainingOf(secret, guess, ch) ==
    Cardinality({ i \in 1..Len(secret) :
                    secret[i] = ch /\ ~(i <= Len(guess) /\ guess[i] = secret[i]) })

(* evaluate_guess, second pass (253-264) from position i on; used(ch) is   *)
(* how many Present were given for ch so far.                              *)
RECURSIVE SecondPassFrom(_, _, _, _, _)
SecondPassFrom(secret, guess, states, used, i) ==
    IF i > Len(guess) THEN states
    ELSE LET ch == guess[i]
             before == Cardinality({ k \in used : guess[k] = ch })
         IN  IF states[i] # "Correct" /\ RemainingOf(secret, guess, ch) > before
             THEN SecondPassFrom(secret, guess, [states EXCEPT ![i] = "Present"],
                                 used \cup {i}, i + 1)
             ELSE SecondPassFrom(secret, guess, states, used, i + 1)

(* wordle.rs evaluate_guess *)
evaluate_guess(secret, guess) ==
    SecondPassFrom(secret, guess, FirstPass(secret, guess), {}, 1)

MaxEvalLen == 3

(* The words evaluate_guess is called with: every word of the letters q    *)
(* and w up to a length, the empty word included; secret and guess need    *)
(* not have the same length.                                               *)
EvalWords == UNION { [1..n -> {"q", "w"}] : n \in 0..MaxEvalLen }

EvaluateArgs ==
    { [fn |-> "evaluate_guess", secret |-> secret, guess |-> guess] :
        secret \in EvalWords, guess \in EvalWords }

PureArgs ==
    << SelectArgs, MapArgs, RgbArgs, SetLedsArgs, ConnectOpenArgs, ReadArgs,
       ParseArgs, CursorArgs, AttemptColorsArgs,
       BuildLedsArgs, UrgencyArgs, BlinkArgs, BuildKeyboardLedsArgs,
       ExtractArgs, EvaluateArgs >>

InitPure ==
    /\ pc = "call"
    /\ \E i \in DOMAIN PureArgs : arg \in PureArgs[i]
    /\ result = NoResult
    /\ locals = NoLocals
    /\ game = "none"
    /\ stream = "none"
    /\ sent = <<>>
    /\ version = 0
    /\ waitKind = "none"
    /\ reads = 0
    /\ lastReadId = NoPacket
    /\ waitResult = "none"
    /\ controller_count = NoCount
    /\ devices = <<>>
    /\ kb = NoKeyboard
    /\ connectErr = NoErr
    /\ appErr = NoErr
    /\ frames = 0
    /\ lastLeds = <<>>
    /\ setResult = "none"
    /\ exitCause = "none"
    /\ sessions = 0
    /\ teardowns = 0

(* The call returns: only the result and the position change. *)
Return(value) ==
    /\ pc = "call"
    /\ pc' = "returned"
    /\ result' = value
    /\ UNCHANGED <<game, stream, sent, kb, connectErr, appErr, sessions, teardowns, arg, locals>>
    /\ UNCHANGED connectVars
    /\ UNCHANGED gameVars

CallSelectKeyboard ==
    /\ arg.fn = "select_keyboard"
    /\ Return(select_keyboard(arg.devices))

CallBuildLedMap ==
    /\ arg.fn = "build_led_map"
    /\ Return(build_led_map(arg.led_names, arg.led_alt_names))

CallRgbToU32 ==
    /\ arg.fn = "rgb_to_u32"
    /\ Return([value |-> rgb_to_u32(arg.color)])

(* Keyboard::set_leds on arg.keyboard: the buffer it leaves, the buffers   *)
(* it hands to write_all, and the error it returns.                        *)
CallSetLeds ==
    /\ arg.fn = "set_leds"
    /\ LET buffer == SetLedsBuffer(arg.keyboard.led_buffer, arg.leds)
           payload == UpdateLedsPayloadBytes(buffer)
       IN  Return([led_buffer |-> buffer,
                   written |-> <<SendPacketBytes(arg.keyboard.device_idx,
                                                 PACKET_ID_UPDATE_LEDS, payload)>>,
                   err |-> IF arg.ok THEN NoErr ELSE ErrSend(PACKET_ID_UPDATE_LEDS)])

(* connect up to line 57: the address, the TCP connection, the timeouts *)
CallConnectOpen ==
    /\ arg.fn = "connect"
    /\ Return(OpenStreamOutcome(arg.env, arg.step))

CallReadPacket ==
    /\ arg.fn = "read_packet"
    /\ Return(ReadPacketBytes(arg.bytes, arg.ending))

CallTryReadPacket ==
    /\ arg.fn = "try_read_packet"
    /\ Return(TryReadPacketBytes(arg.bytes, arg.ending))

(* What one Cursor method returns and where it leaves the cursor. *)
CursorCall(op, buf, c, len) ==
    LET after == CASE op = "read_u16" -> read_u16(buf, c)
                   [] op = "read_u32" -> read_u32(buf, c)
                   [] op = "read_i32" -> read_i32(buf, c)
                   [] op = "read_string" -> read_string(buf, c)
                   [] op = "skip" -> skip(buf, c, len)
    IN  IF ~after.ok THEN [ok |-> FALSE, err |-> ErrParse, pos |-> after.pos]
        ELSE [ok |-> TRUE, err |-> NoErr, pos |-> after.pos,
              value |-> CASE op = "read_u16" -> U16At(buf, c)
                          [] op = "read_u32" -> U32At(buf, c)
                          [] op = "read_i32" -> I32At(buf, c)
                          [] op = "read_string" -> StringAt(buf, c)
                          [] op = "skip" -> <<>>]

CallCursor ==
    /\ arg.fn = "cursor"
    /\ Return(CursorCall(arg.op, arg.buf, [pos |-> arg.pos, ok |-> TRUE], arg.len))

CallParseControllerData ==
    /\ arg.fn = "parse_controller_data"
    /\ Return(ParseControllerData(arg.idx, arg.payload, arg.protocol_version))

CallApplyAttemptColors ==
    /\ arg.fn = "apply_attempt_colors"
    /\ Return([map |-> apply_attempt_colors(arg.map, arg.keyboard, arg.attempt)])

(* build_leds has no Err path: it returns Ok(leds). *)
CallBuildLeds ==
    /\ arg.fn = "build_leds"
    /\ Return([ok |-> TRUE, map |-> build_leds(arg.keyboard, arg.words, arg.lives, arg.now)])

CallColorForUrgency ==
    /\ arg.fn = "color_for_urgency"
    /\ Return([color |-> color_for_urgency(arg.progress)])

CallBlinkSequenceChar ==
    /\ arg.fn = "blink_sequence_char"
    /\ Return([ch |-> blink_sequence_char(arg.word, arg.elapsed_ms)])

(* build_keyboard_leds has no Err path: it returns Ok(leds). *)
CallBuildKeyboardLeds ==
    /\ arg.fn = "build_keyboard_leds"
    /\ Return([ok |-> TRUE,
               map |-> build_keyboard_leds(arg.keyboard, arg.attempts, arg.current_guess,
                                           arg.selected_attempt, arg.blink_on,
                                           arg.elapsed_ms)])

CallExtractChar ==
    /\ arg.fn = "extract_char"
    /\ Return([ch |-> extract_char(arg.name)])

CallEvaluateGuess ==
    /\ arg.fn = "evaluate_guess"
    /\ Return([states |-> evaluate_guess(arg.secret, arg.guess)])

NextPure ==
    \/ CallEvaluateGuess
    \/ CallApplyAttemptColors
    \/ CallExtractChar
    \/ CallBuildKeyboardLeds
    \/ CallBlinkSequenceChar
    \/ CallColorForUrgency
    \/ CallBuildLeds
    \/ CallCursor
    \/ CallParseControllerData
    \/ CallReadPacket
    \/ CallTryReadPacket
    \/ CallConnectOpen
    \/ CallSelectKeyboard
    \/ CallBuildLedMap
    \/ CallRgbToU32
    \/ CallSetLeds

SpecPure == InitPure /\ [][NextPure]_vars

(***************************************************************************)
(* typing::run_with_config run on its own with a connected Keyboard, from  *)
(* the first iteration of its loop to the drop of the Keyboard by its      *)
(* caller.  Times are whole seconds since `start`.  Of the Stats counters   *)
(* words_typed and words_missed are kept; keystrokes and backspaces, and   *)
(* the column and color of a word, which only draw_ui and draw_summary     *)
(* read, are left out.                                                     *)
(***************************************************************************)
LEVEL_DURATION == 60
MAX_WORDS == 5
BONUS_INTERVAL == 10

(* scaled_duration(SPAWN_INTERVAL, config.speed_scale), rounded to seconds *)
SpawnInterval == 2

(* The key events the terminal delivers: Esc, Ctrl-C, Backspace and the    *)
(* letter q.                                                               *)
KeyEvents == {"Esc", "CtrlC", "Backspace", "q"}

MaxKeys == 2
MaxBuffer == 1

(* How far the clock moves between two readings at the top of the loop:    *)
(* not at all, or ten seconds.                                             *)
TimeSteps == {0, 10}

(* word_ttl: a time to live that a time step of ten seconds exceeds *)
TtlSamples == {8}

WordTexts == {<<"q">>}

NoFail == -1

Pop(buffer) == IF buffer = <<>> THEN buffer ELSE SubSeq(buffer, 1, Len(buffer) - 1)

(* typing.rs handle_input from the i-th pending event on; event::poll or   *)
(* event::read fails once fail_after events have been read.  `read` is the *)
(* number of events taken from the terminal.                               *)
RECURSIVE TypingInputFrom(_, _, _, _)
TypingInputFrom(buffer, events, fail_after, i) ==
    IF fail_after = i - 1
    THEN [quit |-> FALSE, err |-> TRUE, buffer |-> buffer, read |-> i - 1]
    ELSE IF i > Len(events)
    THEN [quit |-> FALSE, err |-> FALSE, buffer |-> buffer, read |-> i - 1]
    ELSE IF events[i] \in {"Esc", "CtrlC"}
    THEN [quit |-> TRUE, err |-> FALSE, buffer |-> buffer, read |-> i]
    ELSE IF events[i] = "Backspace"
    THEN TypingInputFrom(Pop(buffer), events, fail_after, i + 1)
    ELSE IF events[i] = "Enter"
    THEN TypingInputFrom(<<>>, events, fail_after, i + 1)
    ELSE IF IsLower(events[i]) \/ IsUpper(events[i])
    THEN TypingInputFrom(Append(buffer, ToAsciiLowercase(events[i])), events, fail_after, i + 1)
    ELSE TypingInputFrom(buffer, events, fail_after, i + 1)

typing_handle_input(buffer, events, fail_after) ==
    TypingInputFrom(buffer, events, fail_after, 1)

(* A loop test that looks at the deadline only. *)
LevelOverDeadlineOnly(elapsed, lives) == elapsed >= LEVEL_DURATION

(* typing.rs 167: the test at the top of the loop *)
LevelOver(elapsed, lives) == elapsed >= LEVEL_DURATION \/ lives = 0

(* typing.rs 175-191: the word list after spawning *)
SpawnWords(words, now, next_spawn, word) ==
    IF words = <<>> THEN Append(words, word)
    ELSE IF now >= next_spawn /\ Len(words) < MAX_WORDS THEN Append(words, word)
    ELSE words

(* typing.rs 193-194: words.retain(..) *)
RECURSIVE Retain(_, _)
Retain(words, now) ==
    IF words = <<>> THEN <<>>
    ELSE LET word == Head(words)
             age == IF now > word.spawned_at THEN now - word.spawned_at ELSE 0
         IN  (IF age < word.ttl THEN <<word>> ELSE <<>>) \o Retain(Tail(words), now)

(* words.iter().position(|word| word.text == buffer), 0 for None *)
PositionOf(words, buffer) ==
    IF \E k \in 1..Len(words) : words[k].text = buffer
    THEN CHOOSE k \in 1..Len(words) :
           /\ words[k].text = buffer
           /\ \A j \in 1..(k - 1) : words[j].text # buffer
    ELSE 0

(* words.swap_remove(index): the last word takes the place of the removed *)
SwapRemove(words, k) ==
    LET moved == [words EXCEPT ![k] = words[Len(words)]]
    IN  SubSeq(moved, 1, Len(words) - 1)

(* A loss of one life however many words expired. *)
LivesAfterExpiryOneLife(lives, expired) ==
    IF expired > 0 THEN lives - 1 ELSE lives

(* typing.rs 196-199: lost = expired.min(lives); lives.saturating_sub(lost) *)
LivesAfterExpiry(lives, expired) ==
    LET lost == Min(expired, lives)
    IN  IF lives > lost THEN lives - lost ELSE 0

(* A bonus life without the cap. *)
LivesAfterBonusUncapped(lives) == lives + 1

(* typing.rs 207: lives = (lives + 1).min(START_LIVES) *)
LivesAfterBonus(lives) == Min(lives + 1, START_LIVES)

(* A flag that a spawn leaves as it is. *)
BonusReadyKeptOnSpawn(bonus_ready, pushed) == bonus_ready

(* typing.rs 178-180 and 185-187: a spawn clears bonus_ready *)
BonusReadyAfterSpawn(bonus_ready, pushed) ==
    IF pushed THEN FALSE ELSE bonus_ready

(* The lists set_leds may be given for a map: its entries in any order. *)
LedListsOf(map) ==
    LET entries == CollectLeds(map)
        n == Cardinality(entries)
    IN  { leds \in [1..n -> entries] : \A i, j \in 1..n : leds[i] = leds[j] => i = j }

(* The loop is left: the number of packets written so far is noted. *)
LoopLeft(l) == [l EXCEPT !.exit_sent = Len(sent)]

InitTyping ==
    /\ pc = "loop_top"
    /\ game = "typing"
    /\ stream = "open"
    /\ sent = <<>>
    /\ version = 0
    /\ waitKind = "none"
    /\ reads = 0
    /\ lastReadId = NoPacket
    /\ waitResult = "none"
    /\ controller_count = NoCount
    /\ devices = <<>>
    /\ kb = GameKeyboard
    /\ connectErr = NoErr
    /\ appErr = NoErr
    /\ frames = 0
    /\ lastLeds = <<>>
    /\ setResult = "none"
    /\ exitCause = "none"
    /\ sessions = 1
    /\ teardowns = 0
    /\ arg = NoArg
    /\ result = NoResult
    /\ locals = [fn |-> "run_with_config", now |-> 0, elapsed |-> 0, next_spawn |-> 0,
                 words |-> <<>>, buffer |-> <<>>, lives |-> START_LIVES,
                 bonus_ready |-> FALSE, words_since_bonus |-> 0,
                 words_typed |-> 0, words_missed |-> 0,
                 pending |-> <<>>, keys |-> 0, game_frames |-> 0, exit_sent |-> -1]

(* The user presses a key while the loop sleeps (typing.rs 240); keys      *)
(* counts the keys pressed so far.                                         *)
TypingKeyPress ==
    /\ pc = "loop_top"
    /\ locals.keys < MaxKeys
    /\ \E e \in KeyEvents :
         locals' = [locals EXCEPT !.pending = Append(@, e), !.keys = @ + 1]
    /\ UNCHANGED <<pc, game, stream, sent, kb, connectErr, appErr, sessions, teardowns, arg, result>>
    /\ UNCHANGED connectVars
    /\ UNCHANGED gameVars

(* typing.rs 164-169: the clock is read, the loop is left or goes on *)
TypingLoopTop ==
    /\ pc = "loop_top"
    /\ \E dt \in TimeSteps :
         LET now == locals.now + dt
             l == [locals EXCEPT !.now = now, !.elapsed = now]
         IN  IF LevelOver(now, locals.lives)
             THEN /\ pc' = "summary"
                  /\ exitCause' = "over"
                  /\ locals' = LoopLeft(l)
             ELSE /\ pc' = "input"
                  /\ locals' = l
                  /\ UNCHANGED exitCause
    /\ UNCHANGED <<game, stream, sent, kb, connectErr, appErr, sessions, teardowns, arg, result>>
    /\ UNCHANGED <<frames, lastLeds, setResult>>
    /\ UNCHANGED connectVars

(* typing.rs 171-173: handle_input(&mut buffer, &mut stats)? *)
TypingHandleInput ==
    /\ pc = "input"
    /\ \E fail_after \in {NoFail} \cup (0..Len(locals.pending)) :
         LET out == typing_handle_input(locals.buffer, locals.pending, fail_after)
             l == [locals EXCEPT !.buffer = out.buffer,
                                 !.pending = SubSeq(@, out.read + 1, Len(@))]
         IN  /\ Len(out.buffer) <= MaxBuffer
             /\ IF out.err
                THEN GameErr(ErrInput, "err_input") /\ locals' = LoopLeft(l)
                ELSE IF out.quit
                THEN /\ pc' = "summary"
                     /\ exitCause' = "quit"
                     /\ locals' = LoopLeft(l)
                     /\ UNCHANGED appErr
                ELSE /\ pc' = "update"
                     /\ locals' = l
                     /\ UNCHANGED <<appErr, exitCause>>
    /\ UNCHANGED <<game, stream, sent, kb, connectErr, sessions, teardowns, arg, result>>
    /\ UNCHANGED <<frames, lastLeds, setResult>>
    /\ UNCHANGED connectVars

(* typing.rs 175-217: words are spawned, expire and are typed *)
TypingUpdate ==
    /\ pc = "update"
    /\ \E text \in WordTexts, ttl \in TtlSamples :
         LET now == locals.now
             word == [text |-> text, spawned_at |-> now, ttl |-> ttl,
                      is_bonus |-> locals.bonus_ready]
             spawned == SpawnWords(locals.words, now, locals.next_spawn, word)
             pushed == Len(spawned) > Len(locals.words)
             next_spawn == IF locals.words = <<>> \/ now >= locals.next_spawn
                           THEN now + SpawnInterval ELSE locals.next_spawn
             bonus_ready == BonusReadyAfterSpawn(locals.bonus_ready, pushed)
             kept == Retain(spawned, now)
             expired == Len(spawned) - Len(kept)
             lives == LivesAfterExpiry(locals.lives, expired)
             index == IF locals.buffer # <<>> THEN PositionOf(kept, locals.buffer) ELSE 0
             typed == index # 0
             is_bonus == typed /\ kept[index].is_bonus
             since == IF typed /\ ~is_bonus THEN locals.words_since_bonus + 1
                      ELSE locals.words_since_bonus
         IN  locals' = [locals EXCEPT
                 !.words = IF typed THEN SwapRemove(kept, index) ELSE kept,
                 !.next_spawn = next_spawn,
                 !.lives = IF is_bonus THEN LivesAfterBonus(lives) ELSE lives,
                 !.bonus_ready = IF since >= BONUS_INTERVAL THEN TRUE ELSE bonus_ready,
                 !.words_since_bonus = IF since >= BONUS_INTERVAL THEN 0 ELSE since,
                 !.words_typed = IF typed THEN @ + 1 ELSE @,
                 !.words_missed = @ + expired,
                 !.buffer = IF typed THEN <<>> ELSE locals.buffer]
    /\ pc' = "tick"
    /\ UNCHANGED <<game, stream, sent, kb, connectErr, appErr, sessions, teardowns, arg, result>>
    /\ UNCHANGED connectVars
    /\ UNCHANGED gameVars

(* typing.rs 219-240: the rendered tick, then the sleep *)
TypingTick ==
    /\ pc = "tick"
    /\ \/ \* last_tick.elapsed() < TICK_MS
          /\ pc' = "loop_top"
          /\ UNCHANGED <<sent, kb, stream, appErr, locals>>
          /\ UNCHANGED gameVars
       \/ /\ frames < MaxFrames
          /\ frames' = frames + 1
          /\ \E leds \in LedListsOf(build_leds(kb, locals.words, locals.lives, locals.now)),
                ok \in BOOLEAN, drawOk \in BOOLEAN :
               /\ SetLeds(leds, ok)
               /\ IF ~ok
                  THEN /\ GameErr(ErrSend(PACKET_ID_UPDATE_LEDS), "err_set_leds")
                       /\ locals' = [locals EXCEPT !.game_frames = @ + 1,
                                                   !.exit_sent = Len(sent) + 1]
                  ELSE IF ~drawOk
                  THEN /\ GameErr(ErrRender, "err_render")
                       /\ locals' = [locals EXCEPT !.game_frames = @ + 1,
                                                   !.exit_sent = Len(sent) + 1]
                  ELSE /\ pc' = "loop_top"
                       /\ locals' = [locals EXCEPT !.game_frames = @ + 1]
                       /\ UNCHANGED <<appErr, exitCause>>
    /\ UNCHANGED <<game, connectErr, sessions, teardowns, arg, result>>
    /\ UNCHANGED connectVars

(* typing.rs 243-250: draw_summary and set_finish_leds *)
TypingSummary ==
    /\ pc = "summary"
    /\ \E drawOk \in BOOLEAN, ok \in BOOLEAN :
         IF ~drawOk
         THEN GameErr(ErrRender, "err_render") /\ UNCHANGED <<sent, kb, stream, lastLeds, setResult>>
         ELSE /\ SetLeds(TypingFinishLeds(kb, locals.lives), ok)
              /\ IF ok THEN pc' = "wait" /\ UNCHANGED <<appErr, exitCause>>
                 ELSE GameErr(ErrSend(PACKET_ID_UPDATE_LEDS), "err_finish_leds")
    /\ UNCHANGED <<game, connectErr, sessions, teardowns, frames>>
    /\ UNCHANGED connectVars
    /\ UNCHANGED pureVars

NextTyping ==
    \/ TypingKeyPress
    \/ TypingLoopTop
    \/ TypingHandleInput
    \/ TypingUpdate
    \/ TypingTick
    \/ TypingSummary
    \/ WaitSpace
    \/ WaitError
    \/ Unwind

SpecTyping == InitTyping /\ [][NextTyping]_vars

(***************************************************************************)
(* typing::run_with_config from the top of its loop forty seconds into a   *)
(* level, with words on the field, lives lost and words typed.  The        *)
(* packets and frames are counted from this state on.                      *)
(***************************************************************************)
MidLevel == 40

(* a word of the field: spawned_at and ttl in seconds *)
FieldWord(spawned_at, is_bonus) ==
    [text |-> <<"w">>, spawned_at |-> spawned_at, ttl |-> 8, is_bonus |-> is_bonus]

(* The fields at that time: empty, one word, one bonus word, two words,    *)
(* a word and a bonus word.  Every word is alive now and expires within    *)
(* ten seconds.                                                            *)
FieldSamples ==
    { <<>>,
      <<FieldWord(MidLevel, FALSE)>>,
      <<FieldWord(MidLevel, TRUE)>>,
      <<FieldWord(MidLevel - 2, FALSE), FieldWord(MidLevel, FALSE)>>,
      <<FieldWord(MidLevel - 2, FALSE), FieldWord(MidLevel, TRUE)>> }

(* bonus_ready and words_since_bonus: nothing typed since the last bonus,  *)
(* nine words typed, the tenth just typed.                                 *)
BonusSamples ==
    { [bonus_ready |-> FALSE, words_since_bonus |-> 0],
      [bonus_ready |-> FALSE, words_since_bonus |-> BONUS_INTERVAL - 1],
      [bonus_ready |-> TRUE, words_since_bonus |-> 0] }

LivesSamples == {1, START_LIVES}

BonusWordsOf(words) == Cardinality({k \in 1..Len(words) : words[k].is_bonus})

InitTypingLoop ==
    /\ pc = "loop_top"
    /\ game = "typing"
    /\ stream = "open"
    /\ sent = <<>>
    /\ version = 0
    /\ waitKind = "none"
    /\ reads = 0
    /\ lastReadId = NoPacket
    /\ waitResult = "none"
    /\ controller_count = NoCount
    /\ devices = <<>>
    /\ kb = GameKeyboard
    /\ connectErr = NoErr
    /\ appErr = NoErr
    /\ frames = 0
    /\ lastLeds = <<>>
    /\ setResult = "none"
    /\ exitCause = "none"
    /\ sessions = 1
    /\ teardowns = 0
    /\ arg = NoArg
    /\ result = NoResult
    /\ \E words \in FieldSamples, bonus \in BonusSamples, lives \in LivesSamples,
          pending \in {<<>>, <<"w">>} :
          locals = [fn |-> "run_with_config", now |-> MidLevel, elapsed |-> MidLevel,
                    next_spawn |-> MidLevel + SpawnInterval,
                    words |-> words, buffer |-> <<>>, lives |-> lives,
                    bonus_ready |-> bonus.bonus_ready,
                    words_since_bonus |-> bonus.words_since_bonus,
                    words_typed |-> bonus.words_since_bonus
                        + BONUS_INTERVAL * (BonusWordsOf(words)
                                            + IF bonus.bonus_ready THEN 1 ELSE 0),
                    words_missed |-> START_LIVES - lives,
                    pending |-> pending, keys |-> MaxKeys - 1, game_frames |-> 0,
                    exit_sent |-> -1]

SpecTypingLoop == InitTypingLoop /\ [][NextTyping]_vars

(***************************************************************************)
(* wordle::run_with_keyboard run on its own, with or without a Keyboard,   *)
(* from the first iteration of its loop to the return to its caller.       *)
(***************************************************************************)
MIN_LEN == 4
MAX_LEN == 10

(* The secret word drawn from WORDLE_WORDS. *)
SecretSamples == { <<"q", "q", "q", "q">> }

(* What the user types between two iterations of the loop: the secret and  *)
(* Enter, another word and Enter, a guess that is too short, and the keys  *)
(* that move, erase and quit.                                              *)
KeyBursts ==
    { <<"q", "q", "q", "q", "Enter">>, <<"q", "w", "q", "w", "Enter">>, <<"q", "Enter">>,
      <<"Left">>, <<"Right">>, <<"Backspace">>, <<"Esc">>, <<"CtrlC">> }

MaxBursts == 2

(* wordle.rs handle_input, KeyCode::Enter (181-206) *)
EnterKey(l) ==
    IF l.selected_attempt # Len(l.attempts) THEN l
    ELSE IF Len(l.current_guess) < MIN_LEN \/ Len(l.current_guess) > MAX_LEN
    THEN [l EXCEPT !.message = "length"]
    ELSE IF Len(l.attempts) >= MAX_ATTEMPTS THEN l
    ELSE [l EXCEPT !.attempts = Append(@, [guess |-> l.current_guess,
                                           states |-> evaluate_guess(l.secret, l.current_guess),
                                           is_win |-> l.current_guess = l.secret]),
                   !.current_guess = <<>>,
                   !.message = "none",
                   !.selected_attempt = Len(l.attempts) + 1]

(* A Backspace that erases whatever is selected. *)
BackspaceKeyAnySelection(l) == [l EXCEPT !.current_guess = Pop(@)]

(* wordle.rs handle_input, KeyCode::Backspace (176-180) *)
BackspaceKey(l) ==
    IF l.selected_attempt = Len(l.attempts) THEN [l EXCEPT !.current_guess = Pop(@)]
    ELSE l

(* A letter key without the test of the length. *)
CharKeyAnyLength(l, e) ==
    IF (IsLower(e) \/ IsUpper(e)) /\ l.selected_attempt = Len(l.attempts)
    THEN [l EXCEPT !.current_guess = Append(@, ToAsciiLowercase(e))]
    ELSE l

(* wordle.rs handle_input, KeyCode::Char (207-214) *)
CharKey(l, e) ==
    IF (IsLower(e) \/ IsUpper(e)) /\ l.selected_attempt = Len(l.attempts)
       /\ Len(l.current_guess) < MAX_LEN
    THEN [l EXCEPT !.current_guess = Append(@, ToAsciiLowercase(e))]
    ELSE l

(* wordle.rs handle_input, one key event that does not quit (160-218) *)
WordleKey(l, e) ==
    IF e = "Left"
    THEN (IF l.selected_attempt > 0 THEN [l EXCEPT !.selected_attempt = @ - 1] ELSE l)
    ELSE IF e = "Right"
    THEN (IF l.selected_attempt < Len(l.attempts) THEN [l EXCEPT !.selected_attempt = @ + 1]
          ELSE l)
    ELSE IF e = "Backspace" THEN BackspaceKey(l)
    ELSE IF e = "Enter" THEN EnterKey(l)
    ELSE CharKey(l, e)

(* wordle.rs handle_input from the i-th pending event on; event::poll or   *)
(* event::read fails once fail_after events have been read.                *)
RECURSIVE WordleInputFrom(_, _, _, _)
WordleInputFrom(l, events, fail_after, i) ==
    IF fail_after = i - 1 THEN [quit |-> FALSE, err |-> TRUE, locals |-> l, read |-> i - 1]
    ELSE IF i > Len(events) THEN [quit |-> FALSE, err |-> FALSE, locals |-> l, read |-> i - 1]
    ELSE IF events[i] \in {"Esc", "CtrlC"}
    THEN [quit |-> TRUE, err |-> FALSE, locals |-> l, read |-> i]
    ELSE WordleInputFrom(WordleKey(l, events[i]), events, fail_after, i + 1)

wordle_handle_input(l, events, fail_after) == WordleInputFrom(l, events, fail_after, 1)

(* wordle.rs is_game_over *)
is_game_over(attempts) ==
    \/ attempts # <<>> /\ attempts[Len(attempts)].is_win
    \/ Len(attempts) >= MAX_ATTEMPTS

InitWordle ==
    /\ pc = "loop_top"
    /\ game = "wordle"
    /\ kb \in {GameKeyboard, NoKeyboard}
    /\ stream = IF kb.present THEN "open" ELSE "none"
    /\ sent = <<>>
    /\ version = 0
    /\ waitKind = "none"
    /\ reads = 0
    /\ lastReadId = NoPacket
    /\ waitResult = "none"
    /\ controller_count = NoCount
    /\ devices = <<>>
    /\ connectErr = NoErr
    /\ appErr = NoErr
    /\ frames = 0
    /\ lastLeds = <<>>
    /\ setResult = "none"
    /\ exitCause = "none"
    /\ sessions = IF kb.present THEN 1 ELSE 0
    /\ teardowns = 0
    /\ arg = NoArg
    /\ result = NoResult
    /\ \E secret \in SecretSamples :
         locals = [fn |-> "run_with_keyboard", secret |-> secret, attempts |-> <<>>,
                   current_guess |-> <<>>, selected_attempt |-> 0, message |-> "none",
                   pending |-> <<>>, bursts |-> 0]

(* The user types while the loop sleeps (wordle.rs 140); bursts counts     *)
(* how often so far.                                                       *)
WordleKeyPress ==
    /\ pc = "loop_top"
    /\ locals.bursts < MaxBursts
    /\ \E keys \in KeyBursts :
         locals' = [locals EXCEPT !.pending = @ \o keys, !.bursts = @ + 1]
    /\ UNCHANGED <<pc, game, stream, sent, kb, connectErr, appErr, sessions, teardowns, arg, result>>
    /\ UNCHANGED connectVars
    /\ UNCHANGED gameVars

(* wordle.rs 96-103: selected_attempt is clamped, a finished game leaves   *)
(* the loop                                                                *)
WordleLoopTop ==
    /\ pc = "loop_top"
    /\ locals' = [locals EXCEPT !.selected_attempt = Min(@, Len(locals.attempts))]
    /\ IF is_game_over(locals.attempts)
       THEN pc' = "summary" /\ exitCause' = "over"
       ELSE pc' = "input" /\ UNCHANGED exitCause
    /\ UNCHANGED <<game, stream, sent, kb, connectErr, appErr, sessions, teardowns, arg, result>>
    /\ UNCHANGED <<frames, lastLeds, setResult>>
    /\ UNCHANGED connectVars

(* wordle.rs 105-113: handle_input(..)? *)
WordleHandleInput ==
    /\ pc = "input"
    /\ \E fail_after \in {NoFail} \cup (0..Len(locals.pending)) :
         LET out == wordle_handle_input(locals, locals.pending, fail_after)
             l == [out.locals EXCEPT !.pending = SubSeq(@, out.read + 1, Len(@))]
         IN  /\ locals' = l
             /\ IF out.err THEN GameErr(ErrInput, "err_input")
                ELSE IF out.quit
                THEN pc' = "summary" /\ exitCause' = "quit" /\ UNCHANGED appErr
                ELSE pc' = "tick" /\ UNCHANGED <<appErr, exitCause>>
    /\ UNCHANGED <<game, stream, sent, kb, connectErr, sessions, teardowns, arg, result>>
    /\ UNCHANGED <<frames, lastLeds, setResult>>
    /\ UNCHANGED connectVars

(* The milliseconds since `start` at which a frame is composed. *)
FrameInstants == {0, BLINK_MS}

(* wordle.rs 115-140: the rendered tick, then the sleep *)
WordleTick ==
    /\ pc = "tick"
    /\ \/ \* last_tick.elapsed() < TICK_MS
          /\ pc' = "loop_top"
          /\ UNCHANGED <<sent, kb, stream, appErr>>
          /\ UNCHANGED gameVars
       \/ /\ frames < MaxFrames
          /\ frames' = frames + 1
          /\ IF kb.present
             THEN \E elapsed_ms \in FrameInstants, ok \in BOOLEAN, drawOk \in BOOLEAN :
                    \E leds \in LedListsOf(
                                  build_keyboard_leds(kb, locals.attempts, locals.current_guess,
                                                      locals.selected_attempt,
                                                      (elapsed_ms \div BLINK_MS) % 2 = 0,
                                                      elapsed_ms)) :
                      /\ SetLeds(leds, ok)
                      /\ IF ~ok THEN GameErr(ErrSend(PACKET_ID_UPDATE_LEDS), "err_set_leds")
                         ELSE IF ~drawOk THEN GameErr(ErrRender, "err_render")
                         ELSE pc' = "loop_top" /\ UNCHANGED <<appErr, exitCause>>
             ELSE \E drawOk \in BOOLEAN :
                    /\ IF ~drawOk THEN GameErr(ErrRender, "err_render")
                       ELSE pc' = "loop_top" /\ UNCHANGED <<appErr, exitCause>>
                    /\ UNCHANGED <<sent, kb, stream, lastLeds, setResult>>
    /\ UNCHANGED <<game, connectErr, sessions, teardowns>>
    /\ UNCHANGED connectVars
    /\ UNCHANGED pureVars

(* wordle.rs 143-146: draw_summary and set_finish_leds *)
WordleSummary ==
    /\ pc = "summary"
    /\ \E drawOk \in BOOLEAN, ok \in BOOLEAN :
         IF ~drawOk
         THEN GameErr(ErrRender, "err_render") /\ UNCHANGED <<sent, kb, stream, lastLeds, setResult>>
         ELSE IF kb.present /\ led_for_char(kb, " ") # NoLed
         THEN /\ SetLeds(WordleFinishLeds(kb), ok)
              /\ IF ok THEN pc' = "wait" /\ UNCHANGED <<appErr, exitCause>>
                 ELSE GameErr(ErrSend(PACKET_ID_UPDATE_LEDS), "err_finish_leds")
         ELSE pc' = "wait" /\ UNCHANGED <<sent, kb, stream, lastLeds, setResult, appErr, exitCause>>
    /\ UNCHANGED <<game, connectErr, sessions, teardowns, frames>>
    /\ UNCHANGED connectVars
    /\ UNCHANGED pureVars

NextWordle ==
    \/ WordleKeyPress
    \/ WordleLoopTop
    \/ WordleHandleInput
    \/ WordleTick
    \/ WordleSummary
    \/ WaitSpace
    \/ WaitError
    \/ Unwind

SpecWordle == InitWordle /\ [][NextWordle]_vars

(***************************************************************************)
(* wordle::run_with_keyboard from the top of its loop in the middle of a   *)
(* game: guesses on the board, a guess half typed, a past attempt          *)
(* selected.  The packets and frames are counted from this state on.       *)
(***************************************************************************)
(* an attempt that did not find the secret *)
PastAttempt(secret) ==
    [guess |-> <<"q", "w", "q", "w">>,
     states |-> evaluate_guess(secret, <<"q", "w", "q", "w">>),
     is_win |-> FALSE]

(* The boards: no attempt, one, or one less than MAX_ATTEMPTS. *)
BoardSamples(secret) ==
    { <<>>, <<PastAttempt(secret)>>,
      <<PastAttempt(secret), PastAttempt(secret), PastAttempt(secret),
        PastAttempt(secret), PastAttempt(secret)>> }

(* The guess typed so far: nothing, or one letter less than MAX_LEN. *)
GuessSamples == { <<>>, <<"q", "q", "q", "q", "q", "q", "q", "q", "q">> }

InitWordleBoard ==
    /\ pc = "loop_top"
    /\ game = "wordle"
    /\ kb = NoKeyboard
    /\ stream = "none"
    /\ sent = <<>>
    /\ version = 0
    /\ waitKind = "none"
    /\ reads = 0
    /\ lastReadId = NoPacket
    /\ waitResult = "none"
    /\ controller_count = NoCount
    /\ devices = <<>>
    /\ connectErr = NoErr
    /\ appErr = NoErr
    /\ frames = 0
    /\ lastLeds = <<>>
    /\ setResult = "none"
    /\ exitCause = "none"
    /\ sessions = 0
    /\ teardowns = 0
    /\ arg = NoArg
    /\ result = NoResult
    /\ \E secret \in SecretSamples :
         \E attempts \in BoardSamples(secret), guess \in GuessSamples :
           \E selected \in {0, Len(attempts)} :
             locals = [fn |-> "run_with_keyboard", secret |-> secret, attempts |-> attempts,
                       current_guess |-> guess, selected_attempt |-> selected,
                       message |-> "none", pending |-> <<>>, bursts |-> MaxBursts - 2]

SpecWordleBoard == InitWordleBoard /\ [][NextWordle]_vars

(***************************************************************************)
(* Properties.                                                             *)
(***************************************************************************)
Last(s) == s[Len(s)]

LedIds(leds) == {leds[k].id : k \in 1..Len(leds)}

IsUpdateLeds(p) == p.id = PACKET_ID_UPDATE_LEDS

IsZeroFrame(p) == IsUpdateLeds(p) /\ IsAllZero(PayloadColors(p.payload))

UpdateLedsCount(s) == Cardinality({k \in 1..Len(s) : IsUpdateLeds(s[k])})

(* C1: after any set_leds call, every LED index that is not in the list of  *)
(* that call is zero in the frame buffer and in the payload of the          *)
(* update-leds packet the call wrote; a call with an empty list writes an   *)
(* all-zero payload.                                                        *)
C1_AbsentLedsAreOff ==
    (pc = "api" /\ setResult # "none") =>
        /\ IsUpdateLeds(Last(sent))
        /\ PayloadColors(Last(sent).payload) = kb.led_buffer
        /\ \A i \in 0..(Len(kb.led_buffer) - 1) :
              i \notin LedIds(lastLeds) => kb.led_buffer[i + 1] = 0
        /\ (lastLeds = <<>> => IsZeroFrame(Last(sent)))

(* a call whose list leaves out an index that the call before it lit *)
C1_Witness ==
    /\ pc = "api"
    /\ Len(sent) >= 2
    /\ \E i \in 0..(Len(kb.led_buffer) - 1) :
          /\ PayloadColors(sent[Len(sent) - 1].payload)[i + 1] # 0
          /\ i \notin LedIds(lastLeds)
          /\ lastLeds # <<>>

(* C2: when set_leds fails in a tick of the game loop, exactly one more     *)
(* update-leds packet is written before the stream is closed, it is all     *)
(* zero, and whether it fails or not nothing follows it and the error of    *)
(* the application stays the one of set_leds.                               *)
C2_TeardownAfterFailedSetLeds ==
    (pc = "done" /\ exitCause = "err_set_leds") =>
        /\ teardowns = 1
        /\ stream = "closed"
        /\ kb = NoKeyboard
        /\ Len(sent) >= 2
        /\ IsUpdateLeds(sent[Len(sent) - 1]) /\ ~sent[Len(sent) - 1].ok
        /\ IsZeroFrame(Last(sent))
        /\ UpdateLedsCount(sent) = frames + 1
        /\ appErr = ErrSend(PACKET_ID_UPDATE_LEDS)

(* set_leds wrote a lit frame and failed, and the teardown frame failed too *)
C2_Witness ==
    /\ pc = "done"
    /\ exitCause = "err_set_leds"
    /\ ~IsZeroFrame(sent[Len(sent) - 1])
    /\ ~Last(sent).ok

(* the game loop has been left while a Keyboard exists *)
LoopExited == kb.present /\ pc \in {"summary", "unwind"}

(* the Keyboard was dropped and the last packet written is its zero frame *)
TornDown == teardowns = 1 /\ sent # <<>> /\ IsZeroFrame(Last(sent))

C4_NoPartialSession ==
    connectErr # NoErr =>
        /\ kb = NoKeyboard
        /\ sessions = 0
        /\ teardowns = 0
        /\ stream # "open"
        /\ UpdateLedsCount(sent) = 0
        /\ setResult = "none"

(* connect failed at its last check (empty key map, after set-custom-mode)  *)
(* and the game has run to its end without a session                        *)
C4_Witness ==
    /\ connectErr = ErrNoLedNames
    /\ pc = "done"
    /\ exitCause = "over"
    /\ Last(sent).id = PACKET_ID_SET_CUSTOM_MODE

PolicyErrs == {ErrZeroControllers, ErrNoKeyboard, ErrNoLedNames}

ZeroControllersCase == pc = "connect_failed" /\ controller_count = 0

AllControllersRead ==
    /\ pc = "connect_failed"
    /\ controller_count > 0
    /\ Len(devices) = controller_count
    /\ waitResult = "matched"

NoKeyboardCase == AllControllersRead /\ SelectSeq(devices, IsKeyboard) = <<>>

EmptyKeyMapCase ==
    /\ AllControllersRead
    /\ SelectSeq(devices, IsKeyboard) # <<>>
    /\ Last(sent).id = PACKET_ID_SET_CUSTOM_MODE /\ Last(sent).ok

(* C5: a controller count of zero, a controller list without a keyboard and *)
(* an empty key map each make connect fail, with three different error      *)
(* values that no other failure of connect produces; after a count of zero  *)
(* no controller-data, set-custom-mode or update-leds packet is written.    *)
C5_PolicyFailures ==
    /\ Cardinality(PolicyErrs) = 3
    /\ (pc = "select" /\ SelectSeq(devices, IsKeyboard) = <<>>) => ~select_keyboard(devices).ok
    /\ ZeroControllersCase => connectErr = ErrZeroControllers
    /\ (connectErr = ErrZeroControllers) =>
          /\ Len(sent) = 3
          /\ \A k \in 1..Len(sent) :
                sent[k].id \notin {PACKET_ID_REQUEST_CONTROLLER_DATA,
                                   PACKET_ID_SET_CUSTOM_MODE, PACKET_ID_UPDATE_LEDS}
    /\ NoKeyboardCase => connectErr = ErrNoKeyboard
    /\ EmptyKeyMapCase => connectErr = ErrNoLedNames
    /\ (pc = "connect_failed" /\ ~ZeroControllersCase /\ ~NoKeyboardCase /\ ~EmptyKeyMapCase)
          => connectErr \notin PolicyErrs
    /\ (pc \in {"data_send", "data_read", "select", "game_enter"} /\ connectErr = NoErr)
          => controller_count > 0

(* the daemon reported zero controllers: connect has just failed *)
C5_Witness == ZeroControllersCase /\ pc = "connect_failed" /\ Len(sent) = 3

(* C6: when connect fails the application runs the selected game without    *)
(* hardware: no LED call is made and the program ends having run the game.  *)
C6_NoHardwareFallback ==
    connectErr # NoErr =>
        /\ setResult = "none"
        /\ UpdateLedsCount(sent) = 0
        /\ (pc = "done" => (exitCause # "none" /\ appErr # ErrTypingNeedsKeyboard))

(* C7: a failing set_leds leaves the stream open and the Keyboard with the  *)
(* same device index, key map and buffer length; the set_leds call after a  *)
(* failed one writes the buffer built from its own list alone.              *)
C7_FailedSetLedsKeepsSession ==
    [][(pc = "api" /\ pc' = "api") =>
          /\ Len(sent') = Len(sent) + 1
          /\ IsUpdateLeds(Last(sent'))
          /\ kb'.led_buffer = WriteLeds(ZeroBuffer(Len(kb.led_buffer)), lastLeds')
          /\ PayloadColors(Last(sent').payload) = kb'.led_buffer
          /\ (setResult' = "err" <=> ~Last(sent').ok)
          /\ (setResult' = "err" =>
                /\ stream' = "open"
                /\ kb'.present
                /\ kb'.device_idx = kb.device_idx
                /\ kb'.led_map = kb.led_map
                /\ Len(kb'.led_buffer) = Len(kb.led_buffer)
                /\ (frames' < MaxCalls => ENABLED ApiSetLeds))]_vars

(* a set_leds call succeeded right after a failed call that had lit an LED  *)
(* the new list leaves out                                                  *)
C7_Witness ==
    /\ pc = "api"
    /\ setResult = "ok"
    /\ Len(sent) >= 2
    /\ ~sent[Len(sent) - 1].ok
    /\ \E i \in 0..(Len(kb.led_buffer) - 1) :
          /\ PayloadColors(sent[Len(sent) - 1].payload)[i + 1] # 0
          /\ kb.led_buffer[i + 1] = 0

(* C8, as claimed: at most 3 packets are read, other ids are discarded      *)
(* without error, and after 3 mismatched packets or any read timeout the    *)
(* version is 0 and connect continues.                                      *)
C8_FallbackOnAnyTimeout ==
    waitKind = "negotiate" =>
        /\ reads <= 3
        /\ (waitResult = "waiting" => connectErr = NoErr \/ reads = 0)
        /\ (waitResult \in {"exhausted", "header_timeout", "payload_timeout"} =>
              version = 0 /\ connectErr = NoErr /\ pc = "count_send")

(* C8, amended: at most 3 packets are read, other ids are discarded without *)
(* error, and after 3 mismatched packets or a timeout of a header read the  *)
(* version is 0 and connect continues; a timeout while a payload is read    *)
(* makes connect fail.                                                      *)
C8_FallbackOnHeaderTimeout ==
    waitKind = "negotiate" =>
        /\ reads <= 3
        /\ (waitResult = "waiting" => connectErr = NoErr \/ reads = 0)
        /\ (waitResult = "waiting" /\ reads > 0 =>
              lastReadId # PACKET_ID_REQUEST_PROTOCOL_VERSION /\ pc = "negotiate_read")
        /\ (waitResult = "exhausted" =>
              reads = 3 /\ lastReadId # PACKET_ID_REQUEST_PROTOCOL_VERSION)
        /\ (waitResult \in {"exhausted", "header_timeout"} =>
              version = 0 /\ connectErr = NoErr /\ pc = "count_send")
        /\ (waitResult = "payload_timeout" =>
              connectErr = ErrReadPayload /\ pc # "count_send")

(* two packets with other ids were discarded, then the header read timed out *)
C8_Witness ==
    /\ waitKind = "negotiate"
    /\ waitResult = "header_timeout"
    /\ reads = 2
    /\ pc = "count_send"

DataRequests(s) == SelectSeq(s, LAMBDA p : p.id = PACKET_ID_REQUEST_CONTROLLER_DATA)

ConnectOrder(s, count, device_idx) ==
    /\ Len(s) = count + 4
    /\ s[1].id = PACKET_ID_SET_CLIENT_NAME
    /\ s[2].id = PACKET_ID_REQUEST_PROTOCOL_VERSION
    /\ s[3].id = PACKET_ID_REQUEST_CONTROLLER_COUNT
    /\ \A k \in 1..count :
          s[3 + k].id = PACKET_ID_REQUEST_CONTROLLER_DATA /\ s[3 + k].dev = k - 1
    /\ s[count + 4].id = PACKET_ID_SET_CUSTOM_MODE
    /\ s[count + 4].dev = device_idx
    /\ \A k \in 1..Len(s) : s[k].ok

(* C9: when connect returns a Keyboard the packets written are, in order,   *)
(* set-client-name, request-protocol-version, request-controller-count,     *)
(* request-controller-data for 0, 1, .., count-1, and set-custom-mode to    *)
(* the selected keyboard; a controller-data request is written only when    *)
(* all earlier ones are answered; no update-leds packet is written before   *)
(* connect returns.                                                         *)
C9_ConnectPacketOrder ==
    /\ (pc = "game_enter" /\ kb.present) =>
          /\ ConnectOrder(sent, controller_count, kb.device_idx)
          /\ select_keyboard(devices).ok
          /\ select_keyboard(devices).device.idx = kb.device_idx
          /\ IsKeyboard(devices[kb.device_idx + 1])
    /\ (pc = "data_read") => Len(DataRequests(sent)) = Len(devices) + 1
    /\ (pc = "data_send") => Len(DataRequests(sent)) = Len(devices)
    /\ (sessions = 0) => UpdateLedsCount(sent) = 0

(* connect returned with two controllers, the second one selected *)
C9_Witness ==
    /\ pc = "game_enter"
    /\ kb.present
    /\ controller_count = 2
    /\ kb.device_idx = 1

ExpectedId == IF waitKind = "count" THEN PACKET_ID_REQUEST_CONTROLLER_COUNT
              ELSE PACKET_ID_REQUEST_CONTROLLER_DATA

(* C10: waiting for a controller-count or controller-data reply, at most 5  *)
(* packets are read; a packet with another id is discarded, the first with  *)
(* the expected id ends the wait; the fifth mismatch fails the operation;   *)
(* a read error or timeout fails it at once.                                *)
C10_ReadPacketExpect ==
    waitKind \in {"count", "data"} =>
        /\ reads <= 5
        /\ (reads > 0 /\ lastReadId = ExpectedId) => waitResult = "matched"
        /\ (waitResult = "matched") => (reads > 0 /\ lastReadId = ExpectedId)
        /\ (waitResult = "waiting" /\ reads > 0) =>
              /\ reads < 5
              /\ connectErr = NoErr
              /\ pc \in {"count_read", "data_read"}
        /\ (waitResult = "exhausted") =>
              /\ reads = 5
              /\ lastReadId # ExpectedId
              /\ connectErr = ErrExpected(ExpectedId)
              /\ pc \notin {"count_read", "data_read"}
        /\ (waitResult \in ReadFailures) =>
              /\ connectErr = read_packet(waitResult).err
              /\ connectErr # NoErr
              /\ pc \notin {"count_read", "data_read"}

(* the controller-data reply came as the fifth packet, after four discards *)
C10_Witness ==
    /\ waitKind = "data"
    /\ waitResult = "matched"
    /\ reads = 5
    /\ connectErr = NoErr

HasPacket(s, packet_id) == \E k \in 1..Len(s) : s[k].id = packet_id

(* the reply for a controller matched, and the list of devices is short of  *)
(* the count: its record did not parse                                      *)
ParseFailedCase ==
    /\ pc = "connect_failed"
    /\ waitKind = "data"
    /\ waitResult = "matched"
    /\ Len(devices) < controller_count

(* C11: when the record of any controller does not parse, whatever was      *)
(* parsed before it, connect fails: no device is selected, no               *)
(* set-custom-mode packet is written and no Keyboard is returned; the       *)
(* selection is only ever made over the records of all the controllers.     *)
C11_ParseFailureIsFatal ==
    /\ ParseFailedCase =>
          /\ connectErr = ErrParse
          /\ kb = NoKeyboard
          /\ sessions = 0
          /\ stream # "open"
          /\ ~HasPacket(sent, PACKET_ID_SET_CUSTOM_MODE)
          /\ Len(DataRequests(sent)) = Len(devices) + 1
    /\ (pc = "select") => Len(devices) = controller_count
    /\ (pc = "game_enter" /\ kb.present) => Len(devices) = controller_count
    /\ (connectErr = ErrParse) =>
          /\ sessions = 0
          /\ ~HasPacket(sent, PACKET_ID_SET_CUSTOM_MODE)
          /\ ~HasPacket(sent, PACKET_ID_UPDATE_LEDS)

(* the record of the second controller did not parse after a preferred      *)
(* keyboard had been parsed as the first                                    *)
C11_Witness ==
    /\ ParseFailedCase
    /\ controller_count = 2
    /\ Len(devices) = 1
    /\ IsKeyboard(devices[1])
    /\ IsPreferred(devices[1])
    /\ build_led_map(devices[1].led_names, devices[1].led_alt_names) # EmptyMap

Returned(fn) == pc = "returned" /\ arg.fn = fn

MinOf(S) == CHOOSE x \in S : \A y \in S : x <= y

(* s contains needle, letters compared without regard to case *)
ContainsNoCase(s, needle) ==
    \E i \in 0..(Len(s) - Len(needle)) :
        \A k \in 1..Len(needle) : ToAsciiLowercase(s[i + k]) = ToAsciiLowercase(needle[k])

KeyboardPositions(devs) ==
    {i \in 1..Len(devs) : devs[i].device_type = DEVICE_TYPE_KEYBOARD}

BrandPositions(devs) ==
    {i \in KeyboardPositions(devs) :
        \/ ContainsNoCase(devs[i].vendor, S_corsair)
        \/ ContainsNoCase(devs[i].display_name, S_corsair)}

(* C12: select_keyboard fails exactly when the list holds no keyboard-type  *)
(* device; otherwise it returns a keyboard-type device of the list: the     *)
(* first whose vendor or display name contains the brand, compared without  *)
(* regard to case, and the first keyboard-type device when none does.       *)
C12_SelectKeyboard ==
    Returned("select_keyboard") =>
        LET devs == arg.devices
            K == KeyboardPositions(devs)
            B == BrandPositions(devs)
        IN  /\ (K = {}) <=> ~result.ok
            /\ ~result.ok => result.err = ErrNoKeyboard
            /\ result.ok =>
                  /\ result.device.device_type = DEVICE_TYPE_KEYBOARD
                  /\ result.device = devs[IF B # {} THEN MinOf(B) ELSE MinOf(K)]

(* a keyboard of another brand comes first, two keyboards of the brand      *)
(* follow, the first of them naming it in its display name only             *)
C12_Witness ==
    /\ Returned("select_keyboard")
    /\ Len(arg.devices) = 3
    /\ KeyboardPositions(arg.devices) = {1, 2, 3}
    /\ BrandPositions(arg.devices) = {2, 3}
    /\ ~ContainsNoCase(arg.devices[2].vendor, S_corsair)
    /\ result.ok
    /\ result.device.idx = 1

(* The names in the order build_led_map reads them, each with its index:    *)
(* the alt-names that have a primary name at their index, then the primary  *)
(* names.                                                                   *)
(* extract_char of each name that build_led_map is called with *)
NameChar == [n \in PrimaryNames \cup AltNames |-> extract_char(n)] @@ <<>>

ReadAltNames(led_names, led_alt_names) ==
    [k \in 1..Min(Len(led_alt_names), Len(led_names)) |->
        [ch |-> NameChar[led_alt_names[k]], idx |-> k - 1]]

ReadPrimaryNames(led_names) ==
    [k \in 1..Len(led_names) |-> [ch |-> NameChar[led_names[k]], idx |-> k - 1]]

CharsOf(entries) == {entries[k].ch : k \in 1..Len(entries)} \ {NoChar}

FirstFor(entries, c) ==
    entries[MinOf({k \in 1..Len(entries) : entries[k].ch = c})].idx

ExampleNames == <<N_KeyA, N_KEY_B, N_space_bar, N_Key1>>
ExampleMap == [c \in {"A", "B", " ", "1"} |->
                 CASE c = "A" -> 0 [] c = "B" -> 1 [] c = " " -> 2 [] c = "1" -> 3]

(* C13: the key map holds exactly the characters the names resolve to, each *)
(* with the index of the first name, in the order the names are read, that  *)
(* resolves to it; the names "Key: A", "KEY B", "space bar", "Key1" give    *)
(* A:0, B:1, ' ':2, '1':3.                                                  *)
C13_FirstAssociationWins ==
    Returned("build_led_map") =>
        LET read == ReadAltNames(arg.led_names, arg.led_alt_names)
                    \o ReadPrimaryNames(arg.led_names)
        IN  /\ DOMAIN result = CharsOf(read)
            /\ \A c \in DOMAIN result : result[c] = FirstFor(read, c)
            /\ (arg.led_names = ExampleNames /\ arg.led_alt_names = <<>>) =>
                  result = ExampleMap

(* the example's names with 'A' named twice more: by the alt-name at index  *)
(* 1, read first, and by the primary name at index 3, read last             *)
C13_Witness ==
    /\ Returned("build_led_map")
    /\ arg.led_names = <<N_KeyA, N_KEY_B, N_space_bar, N_KeyA>>
    /\ arg.led_alt_names = <<N_Logo, N_a>>
    /\ result["A"] = 1
    /\ result["B"] = 1
    /\ result[" "] = 2

AltIndices(alts, limit, c) ==
    {k - 1 : k \in {j \in 1..Min(Len(alts), limit) : NameChar[alts[j]] = c}}

PrimaryIndices(names, c) ==
    {k - 1 : k \in {j \in 1..Len(names) : NameChar[names[j]] = c}}

(* C14, as claimed: a character is mapped to the index of a primary name    *)
(* only if no alt-name anywhere in the alt-name list yields it; otherwise   *)
(* it is mapped to the lowest alt-name index that yields it.                *)
C14_AltNamesAnywhere ==
    Returned("build_led_map") =>
        \A c \in DOMAIN result :
            LET alt == AltIndices(arg.led_alt_names, Len(arg.led_alt_names), c)
            IN  IF alt = {}
                THEN result[c] = MinOf(PrimaryIndices(arg.led_names, c))
                ELSE result[c] = MinOf(alt)

(* C14, amended: only the alt-names at an index below the number of primary *)
(* names count.  A character is mapped to the index of a primary name only  *)
(* if none of those alt-names yields it; otherwise it is mapped to the      *)
(* lowest such alt-name index.  An alt-name at a higher index maps nothing. *)
C14_AltNamesInRange ==
    Returned("build_led_map") =>
        /\ \A c \in DOMAIN result :
              LET alt == AltIndices(arg.led_alt_names, Len(arg.led_names), c)
              IN  IF alt = {}
                  THEN result[c] = MinOf(PrimaryIndices(arg.led_names, c))
                  ELSE result[c] = MinOf(alt)
        /\ \A k \in 1..Len(arg.led_alt_names) :
              LET c == NameChar[arg.led_alt_names[k]]
              IN  (/\ AltIndices(arg.led_alt_names, Len(arg.led_names), c) = {}
                   /\ PrimaryIndices(arg.led_names, c) = {}) => c \notin DOMAIN result

(* the primary name at index 0 and the alt-name at index 1 both resolve to  *)
(* 'A': the alt-name's index is kept                                        *)
C14_Witness ==
    /\ Returned("build_led_map")
    /\ arg.led_names = <<N_KeyA, N_KEY_B>>
    /\ arg.led_alt_names = <<N_Logo, N_a>>
    /\ result["A"] = 1
    /\ result["B"] = 1

(***************************************************************************)
(* rgb_to_u32 and the colors of an update-leds packet.                     *)
(***************************************************************************)
(* the payload of the i-th buffer a set_leds call wrote: what follows the  *)
(* 16-byte header                                                          *)
WrittenPayload(i) == SubSeq(result.written[i], 17, Len(result.written[i]))

(* the entries of the list whose id is k (0-based), by position *)
EntriesFor(leds, k) == { j \in 1..Len(leds) : leds[j].id = k }

MaxOf(S) == CHOOSE x \in S : \A y \in S : x >= y

(* C15: every color set_leds transmits is a 32-bit value with red in bits  *)
(* 0-7, green in bits 8-15, blue in bits 16-23 and bits 24-31 zero, and    *)
(* the packed value is 0 exactly when r = g = b = 0.  On the wire (little  *)
(* endian) the four bytes of a listed LED are r, g, b, 0.                  *)
C15_ColorPacking ==
    /\ Returned("rgb_to_u32") =>
          LET v == result.value
              c == arg.color
          IN  /\ v % 256 = c.r
              /\ (v \div 256) % 256 = c.g
              /\ (v \div 65536) % 256 = c.b
              /\ v \div 16777216 = 0
              /\ (v = 0) <=> (c.r = 0 /\ c.g = 0 /\ c.b = 0)
    /\ Returned("set_leds") =>
          \A k \in 0..(Len(arg.keyboard.led_buffer) - 1) :
              LET bytes == SubSeq(WrittenPayload(1), 6 + 4 * k + 1, 6 + 4 * k + 4)
                  hits == EntriesFor(arg.leds, k)
              IN  /\ bytes[4] = 0
                  /\ hits # {} =>
                        LET led == arg.leds[MaxOf(hits)]
                        IN  bytes = <<led.r, led.g, led.b, 0>>

(* C15 witness: a set_leds call has transmitted, for LED 0, a color with   *)
(* three different non-zero channels (r = 255, g = 128, b = 1).            *)
C15_Witness ==
    /\ Returned("set_leds")
    /\ \E j \in 1..Len(arg.leds) :
          /\ arg.leds[j].id = 0
          /\ arg.leds[j].r = 255 /\ arg.leds[j].g = 128 /\ arg.leds[j].b = 1
    /\ result.led_buffer[1] = 1 * 65536 + 128 * 256 + 255
    /\ SubSeq(WrittenPayload(1), 7, 10) = <<255, 128, 1, 0>>
(***************************************************************************)
(* The update-leds packet of a set_leds call.                              *)
(***************************************************************************)
(* the colors of a payload: the u32 values that follow its six-byte head *)
WrittenColors(payload) ==
    [k \in 1..((Len(payload) - 6) \div 4) |-> FromLe32(payload, 6 + 4 * (k - 1))]

GreenLeds == <<[id |-> 0, r |-> 0, g |-> 255, b |-> 0]>>

ThreeLedNames == <<N_KeyQ, N_KeyW, N_Space>>

(* C16: each set_leds call writes exactly one packet; it is an update-leds *)
(* packet (id 1050, framed with its payload length) whose payload is       *)
(* data-size (u32), led-count (u16) and led-count colors (u32 each), where *)
(* led-count is the number of LEDs the keyboard reported at connect and    *)
(* data-size is the byte length of the payload, 6 + 4 * led-count.  For    *)
(* the keyboard with the LEDs "Key: Q", "Key: W", "space" and the list     *)
(* {0: green} the colors are [green-packed, 0, 0].                         *)
C16_OneUpdateLedsPacket ==
    Returned("set_leds") =>
        /\ Len(result.written) = 1
        /\ LET bytes == result.written[1]
               payload == WrittenPayload(1)
               n == Len(arg.device.led_names)
           IN  /\ SubSeq(bytes, 1, 4) = PACKET_MAGIC
               /\ FromLe32(bytes, 4) = arg.device.idx
               /\ FromLe32(bytes, 8) = 1050
               /\ FromLe32(bytes, 12) = Len(payload)
               /\ Len(payload) = 6 + 4 * n
               /\ FromLe32(payload, 0) = Len(payload)
               /\ payload[5] + payload[6] * 256 = n
               /\ Len(WrittenColors(payload)) = n
               /\ (arg.device.led_names = ThreeLedNames /\ arg.leds = GreenLeds) =>
                     WrittenColors(payload) = <<255 * 256, 0, 0>>

(* C16 witness: the call with {0: green} on the three-LED keyboard has     *)
(* returned, its 18-byte payload written.                                  *)
C16_Witness ==
    /\ Returned("set_leds")
    /\ arg.device.led_names = ThreeLedNames
    /\ arg.leds = GreenLeds
    /\ WrittenPayload(1) = <<18, 0, 0, 0, 3, 0, 0, 255, 0, 0, 0, 0, 0, 0, 0, 0, 0, 0>>
(***************************************************************************)
(* Entries of set_leds that are out of range.                              *)
(***************************************************************************)
HasOutOfRange(leds, n) == \E j \in 1..Len(leds) : leds[j].id >= n

(* C17: a set_leds entry whose id is at or beyond the buffer length is     *)
(* dropped silently: the call fails only if its write fails, the buffer    *)
(* keeps the length it got at connect (the number of LEDs of the device),  *)
(* and every in-range LED gets what the entries of the call say for it     *)
(* (the color of its last entry, off when it has none), which is also what *)
(* the packet carries.                                                     *)
C17_OutOfRangeDropped ==
    (Returned("set_leds") /\ HasOutOfRange(arg.leds, Len(arg.keyboard.led_buffer))) =>
        LET n == Len(arg.keyboard.led_buffer)
        IN  /\ arg.ok => result.err = NoErr
            /\ n = Len(arg.device.led_names)
            /\ Len(result.led_buffer) = n
            /\ DOMAIN result.led_buffer = 1..n
            /\ \A k \in 0..(n - 1) :
                  LET hits == EntriesFor(arg.leds, k)
                  IN  result.led_buffer[k + 1] =
                        IF hits = {} THEN 0
                        ELSE LET led == arg.leds[MaxOf(hits)]
                             IN  led.b * 65536 + led.g * 256 + led.r
            /\ WrittenColors(WrittenPayload(1)) = result.led_buffer

(* C17 witness: a successful call on the three-LED keyboard whose list has *)
(* an entry for id 3 (out of range) before an entry for id 1; LED 1 is lit *)
(* and the buffer still has three entries.                                 *)
C17_Witness ==
    /\ Returned("set_leds")
    /\ arg.ok
    /\ Len(arg.keyboard.led_buffer) = 3
    /\ Len(arg.leds) = 2
    /\ arg.leds[1].id = 3
    /\ arg.leds[2] = [id |-> 1, r |-> 0, g |-> 255, b |-> 0]
    /\ result.err = NoErr
    /\ result.led_buffer = <<0, 255 * 256, 0>>
(***************************************************************************)
(* The port override.                                                      *)
(***************************************************************************)
RECURSIVE DecimalValue(_)
DecimalValue(s) ==
    IF s = <<>> THEN 0 ELSE DecimalValue(SubSeq(s, 1, Len(s) - 1)) * 10 + DigitValue(s[Len(s)])

(* v is a text that denotes a number in 0..65535 *)
IsPortNumber(v) ==
    /\ v.kind = "text"
    /\ LET digits == IF v.text # <<>> /\ v.text[1] = "+" THEN Tail(v.text) ELSE v.text
       IN  /\ digits # <<>>
           /\ \A i \in 1..Len(digits) : digits[i] \in DigitChars
           /\ DecimalValue(digits) <= 65535

(* C18: if the port override is set to a value that is not a valid 16-bit  *)
(* port number, connect fails with the configuration error, having opened  *)
(* no TCP connection (and so sent no packet).                              *)
C18_InvalidPortFailsFast ==
    (Returned("connect") /\ arg.env.port.kind # "unset" /\ ~IsPortNumber(arg.env.port)) =>
        /\ result.err = ErrPort
        /\ result.connects = <<>>
        /\ result.stream = "none"
(***************************************************************************)
(* Decoding and re-encoding packets.                                       *)
(***************************************************************************)
ReadReturned == Returned("read_packet") \/ Returned("try_read_packet")

(* bytes is one whole packet: magic, device index, packet id, a length     *)
(* field equal to the length of the payload that follows                   *)
WellFormed(bytes) ==
    /\ Len(bytes) >= 16
    /\ SubSeq(bytes, 1, 4) = <<79, 82, 71, 66>>
    /\ bytes[13] + bytes[14] * 256 + bytes[15] * 65536 + bytes[16] * 16777216 = Len(bytes) - 16

(* C19: decoding a well-formed packet byte string and re-encoding the      *)
(* decoded packet yields the same bytes.  The decoded Packet has no device *)
(* index and send_packet takes one as an argument of its own, so the       *)
(* re-encoding is taken with each device index a caller passes.            *)
C19_RoundTrip ==
    (ReadReturned /\ WellFormed(arg.bytes)) =>
        /\ result.kind \in {"Ok", "Some"}
        /\ \A device_idx \in {0, 1} :
              SendPacketBytes(device_idx, result.packet.packet_id, result.packet.payload)
                  = arg.bytes

(* C20: a read fails with an error when the first four bytes of the header *)
(* are not the magic tag, and when fewer payload bytes arrive than the     *)
(* header declares; in both cases no packet is returned.  A packet that is *)
(* returned has the id of the header and exactly the declared payload.     *)
C20_DecodeRejects ==
    (ReadReturned /\ Len(arg.bytes) >= 16) =>
        LET declared == arg.bytes[13] + arg.bytes[14] * 256 + arg.bytes[15] * 65536
                          + arg.bytes[16] * 16777216
            magicOk == SubSeq(arg.bytes, 1, 4) = <<79, 82, 71, 66>>
        IN  /\ ~magicOk =>
                  /\ result.kind = "Err"
                  /\ result.err = ErrMagic
                  /\ "packet" \notin DOMAIN result
            /\ (magicOk /\ Len(arg.bytes) - 16 < declared) =>
                  /\ result.kind = "Err"
                  /\ result.err = ErrReadPayload
                  /\ "packet" \notin DOMAIN result
            /\ "packet" \in DOMAIN result =>
                  /\ magicOk
                  /\ result.packet.packet_id =
                        arg.bytes[9] + arg.bytes[10] * 256 + arg.bytes[11] * 65536
                          + arg.bytes[12] * 16777216
                  /\ result.packet.payload = SubSeq(arg.bytes, 17, 16 + declared)
                  /\ Len(result.packet.payload) = declared

(* C20 witness: a read of a header that declares two payload bytes, of     *)
(* which one arrived before the stream timed out, has returned the payload *)
(* error.                                                                  *)
C20_Witness ==
    /\ ReadReturned
    /\ Len(arg.bytes) = 17
    /\ SubSeq(arg.bytes, 1, 4) = <<79, 82, 71, 66>>
    /\ SubSeq(arg.bytes, 13, 16) = <<2, 0, 0, 0>>
    /\ arg.ending = "timeout"
    /\ result.kind = "Err"
    /\ result.err = ErrReadPayload
(***************************************************************************)
(* The controller-data parser.                                             *)
(***************************************************************************)
(* the call got a whole record *)
WholeRecordParsed == Returned("parse_controller_data") /\ arg.cut = 0

(* every zone of the record has no matrix data, or matrix data that holds  *)
(* at least the height and the width (8 bytes)                             *)
MatrixBlocksHoldHeader(rec) ==
    \A i \in 1..Len(rec.zones) : rec.zones[i].matrix_len = 0 \/ rec.zones[i].matrix_len >= 8

(* the cursor ended at the end of the record and the fields read after the *)
(* variable-length parts are those of the record                           *)
ParsedWithoutDrift ==
    /\ result.ok
    /\ result.pos = Len(arg.payload)
    /\ result.device.device_type = arg.rec.device_type
    /\ result.device.led_names = arg.rec.led_names
    /\ result.device.led_alt_names =
          IF arg.protocol_version >= 5 THEN arg.rec.led_alt_names ELSE <<>>

(* C21 as stated: for every protocol version 0 to 5 and every well-formed  *)
(* record, with zones of any declared matrix length, the parser consumes   *)
(* exactly the bytes of the record, and the fields after a variable-length *)
(* sub-record are read from their true offset.                             *)
C21_NoDriftAnyMatrixLength ==
    WholeRecordParsed => ParsedWithoutDrift

(* C21 amended: the same for the records whose declared matrix lengths are *)
(* 0 or at least 8.                                                        *)
C21_NoDrift ==
    (WholeRecordParsed /\ MatrixBlocksHoldHeader(arg.rec)) => ParsedWithoutDrift

(* C21 witness: a version-5 record with two modes, a zone with 12 bytes of *)
(* matrix data and a segment, two LEDs, a color and an alt-name has been   *)
(* parsed to its last byte.                                                *)
C21_Witness ==
    /\ WholeRecordParsed
    /\ arg.protocol_version = 5
    /\ arg.rec.modes = 2
    /\ Len(arg.rec.zones) = 1
    /\ arg.rec.zones[1] = [matrix_len |-> 12, segments |-> 1]
    /\ arg.rec.led_names = <<N_KeyA, N_Space>>
    /\ arg.rec.colors = 1
    /\ arg.rec.led_alt_names = <<N_AltB>>
    /\ result.ok
    /\ result.pos = Len(arg.payload)
    /\ result.device.led_names = <<N_KeyA, N_Space>>
(***************************************************************************)
(* The version-gated fields.                                               *)
(***************************************************************************)
(* the bytes of a string on the wire: length field, characters, NUL *)
StringSize(chars) == 2 + Len(chars) + 1

RECURSIVE Sum(_)
Sum(sizes) == IF sizes = <<>> THEN 0 ELSE Head(sizes) + Sum(Tail(sizes))

(* The size of a record of version v when the gated fields are present     *)
(* exactly as C22 says: vendor from 1, the three brightness fields of a    *)
(* mode from 3, the segment list of a zone from 4, the zone flags, the     *)
(* alt-names and the device flags from 5.                                  *)
GatedSize(rec, v) ==
    LET modeSize == StringSize(<<"M">>) + 9 * 4 + (IF v >= 3 THEN 3 * 4 ELSE 0) + 2 + 4
        segmentSize == StringSize(<<"S">>) + 3 * 4
        ZoneSize(zone) ==
            StringSize(<<"Z">>) + 4 * 4 + 2 + zone.matrix_len
                + (IF v >= 4 THEN 2 + zone.segments * segmentSize ELSE 0)
                + (IF v >= 5 THEN 4 ELSE 0)
        LedSize(name) == StringSize(name) + 4
    IN  4 + 4 + StringSize(rec.name)
          + (IF v >= 1 THEN StringSize(rec.vendor) ELSE 0)
          + StringSize(<<"d">>) + StringSize(<<"1">>) + StringSize(<<>>) + StringSize(<<"/">>)
          + 2 + 4 + rec.modes * modeSize
          + 2 + Sum([i \in 1..Len(rec.zones) |-> ZoneSize(rec.zones[i])])
          + 2 + Sum([i \in 1..Len(rec.led_names) |-> LedSize(rec.led_names[i])])
          + 2 + rec.colors * 4
          + (IF v >= 5 THEN 2 + Sum([i \in 1..Len(rec.led_alt_names) |->
                                      StringSize(rec.led_alt_names[i])]) + 4 ELSE 0)

(* C22: the parser reads the version-gated fields exactly per version: the *)
(* vendor string iff version >= 1 (otherwise the vendor is empty), the     *)
(* brightness fields of a mode iff version >= 3, the segment list of a     *)
(* zone iff version >= 4, the zone flags, the alt-name list and the device *)
(* flags iff version >= 5; below 5 the resulting alt-name list is empty.   *)
(* So a record of version v that carries exactly those fields is read to   *)
(* its end, and the DeviceData has the vendor and the alt-names per v.     *)
C22_VersionGating ==
    (WholeRecordParsed /\ MatrixBlocksHoldHeader(arg.rec)) =>
        LET v == arg.protocol_version
        IN  /\ Len(arg.payload) = GatedSize(arg.rec, v)
            /\ result.ok
            /\ result.pos = GatedSize(arg.rec, v)
            /\ result.device.vendor = (IF v >= 1 THEN arg.rec.vendor ELSE <<>>)
            /\ result.device.display_name =
                  (IF v >= 1 THEN arg.rec.vendor \o <<" ">> \o arg.rec.name ELSE arg.rec.name)
            /\ result.device.led_alt_names = (IF v >= 5 THEN arg.rec.led_alt_names ELSE <<>>)
            /\ v < 5 => result.device.led_alt_names = <<>>
            /\ result.device = parse_controller_data(arg.idx, arg.rec, v)

(* C22 witness: a version-4 record (vendor, brightness fields and segments *)
(* present, no zone flags, no alt-names) of a device that has an alt-name  *)
(* has been parsed: the vendor is read, the alt-name list is empty.        *)
C22_Witness ==
    /\ WholeRecordParsed
    /\ arg.protocol_version = 4
    /\ arg.rec.modes = 2
    /\ Len(arg.rec.zones) = 1
    /\ arg.rec.zones[1] = [matrix_len |-> 8, segments |-> 1]
    /\ arg.rec.led_alt_names = <<N_AltB>>
    /\ result.ok
    /\ result.device.vendor = V_Corsair
    /\ result.device.led_alt_names = <<>>
(***************************************************************************)
(* Cursor reads at the end of the buffer.                                  *)
(***************************************************************************)
(* the bytes left at the position the call started from *)
Remaining == Len(arg.buf) - arg.pos

(* the bytes the call needs: the size of the value, for a string its       *)
(* length field and, when that can be read, the declared length            *)
Needed ==
    CASE arg.op = "read_u16" -> 2
      [] arg.op \in {"read_u32", "read_i32"} -> 4
      [] arg.op = "skip" -> arg.len
      [] arg.op = "read_string" ->
            IF Remaining < 2 THEN 2
            ELSE 2 + arg.buf[arg.pos + 1] + arg.buf[arg.pos + 2] * 256

(* C28: a Cursor read (read_u16, read_u32, read_i32, read_string, skip)    *)
(* that needs more bytes than remain returns an error and no data; a read  *)
(* that succeeds has consumed all the bytes it needs; the position never   *)
(* exceeds the buffer length, also when parse_controller_data runs out of  *)
(* bytes.                                                                  *)
C28_CursorBounds ==
    /\ Returned("cursor") =>
          /\ result.pos <= Len(arg.buf)
          /\ Needed > Remaining =>
                /\ ~result.ok
                /\ result.err = ErrParse
                /\ "value" \notin DOMAIN result
          /\ Needed <= Remaining =>
                /\ result.ok
                /\ result.pos = arg.pos + Needed
          /\ (result.ok /\ arg.op = "read_u16") =>
                result.value = arg.buf[arg.pos + 1] + arg.buf[arg.pos + 2] * 256
          /\ (result.ok /\ arg.op = "read_string") =>
                Len(result.value) <= Needed - 2
    /\ Returned("parse_controller_data") =>
          /\ result.pos <= Len(arg.payload)
          /\ (arg.cut > 0 /\ MatrixBlocksHoldHeader(arg.rec)) =>
                /\ ~result.ok
                /\ result.err = ErrParse
                /\ "device" \notin DOMAIN result

(* C28 witness: a read_string whose length field (2) could be read but of  *)
(* whose two bytes only one remains has returned the error.                *)
C28_Witness ==
    /\ Returned("cursor")
    /\ arg.op = "read_string"
    /\ arg.buf = <<2, 0, 65>>
    /\ arg.pos = 0
    /\ ~result.ok
    /\ result.pos <= 3

(* The requests of an attempt for one LED: the positions of the guess      *)
(* whose letter has that LED.                                              *)
AttemptRequests(keyboard, attempt, id) ==
    { i \in 1..Min(Len(attempt.guess), Len(attempt.states)) :
        led_for_char(keyboard, attempt.guess[i]) = id }

(* The attempt with its (letter, state) pairs in the order perm. *)
Reordered(attempt, perm) ==
    [attempt EXCEPT !.guess = [i \in 1..Len(perm) |-> attempt.guess[perm[i]]],
                    !.states = [i \in 1..Len(perm) |-> attempt.states[perm[i]]]]

OrdersOf(n) == { perm \in [1..n -> 1..n] : \A i, j \in 1..n : perm[i] = perm[j] => i = j }

(* The words that ask for one LED. *)
WordRequests(keyboard, words, id) ==
    { k \in 1..Len(words) :
        \E i \in 1..Len(words[k].text) : led_for_char(keyboard, words[k].text[i]) = id }

LifeLeds(keyboard) == { led_for_char(keyboard, DigitChar(i)) : i \in 1..START_LIVES }

(* C23: when several highlight requests target the same LED in one frame,  *)
(* the LED gets the color of the highest-priority request, in whatever     *)
(* order the requests are evaluated: for the letters of a Wordle attempt   *)
(* (Correct over Present over Absent) the color apply_attempt_colors       *)
(* leaves is that of a request no other request for the LED outranks, and  *)
(* the same map comes out of every order of the (letter, state) pairs; for *)
(* the words of a typing frame the color build_leds gives a letter's LED   *)
(* is that of the most urgent word asking for it, and the same map comes   *)
(* out of every order of the words.                                        *)
C23_PriorityMerge ==
    /\ Returned("apply_attempt_colors") =>
         /\ \A id \in DOMAIN result.map :
              AttemptRequests(arg.keyboard, arg.attempt, id) # {} =>
                \E i \in AttemptRequests(arg.keyboard, arg.attempt, id) :
                  /\ result.map[id] = StateColor(arg.attempt.states[i])
                  /\ \A j \in AttemptRequests(arg.keyboard, arg.attempt, id) :
                       priority(StateColor(arg.attempt.states[j]))
                           <= priority(StateColor(arg.attempt.states[i]))
         /\ \A perm \in OrdersOf(Len(arg.attempt.guess)) :
              apply_attempt_colors(arg.map, arg.keyboard, Reordered(arg.attempt, perm))
                  = result.map
    /\ Returned("build_leds") =>
         /\ \A id \in (DOMAIN result.map) \ LifeLeds(arg.keyboard) :
              \E k \in WordRequests(arg.keyboard, arg.words, id) :
                /\ result.map[id] = color_for_urgency(Urgency(arg.words[k], arg.now))
                /\ \A j \in WordRequests(arg.keyboard, arg.words, id) :
                     ~FracLess(Urgency(arg.words[k], arg.now), Urgency(arg.words[j], arg.now))
         /\ \A perm \in OrdersOf(Len(arg.words)) :
              build_leds(arg.keyboard, [i \in 1..Len(perm) |-> arg.words[perm[i]]],
                         arg.lives, arg.now) = result.map

(* C23 witness: an attempt whose first letter is Absent and whose second,  *)
(* the same letter, is Correct has left the letter's LED green.            *)
C23_Witness ==
    /\ Returned("apply_attempt_colors")
    /\ Len(arg.attempt.guess) >= 2
    /\ arg.attempt.guess[1] = "q" /\ arg.attempt.guess[2] = "q"
    /\ arg.attempt.states[1] = "Absent" /\ arg.attempt.states[2] = "Correct"
    /\ result.map[led_for_char(arg.keyboard, "q")] = Rgb(0, 255, 0)

Abs(x) == IF x < 0 THEN 0 - x ELSE x

(* The steepest slope of a channel, 255 / 0.33 per unit of urgency,        *)
(* rounded up.                                                             *)
SteepestSlope == (255 * 100 + 32) \div 33

(* Between the urgencies p <= q a channel moves by no more than the        *)
(* steepest slope allows, plus the 1 the cut to a whole number can add.    *)
NoJumpBetween(p, q, from, to) ==
    Abs(to - from) * (p.den * q.den)
        <= SteepestSlope * (q.num * p.den - p.num * q.den) + p.den * q.den

(* C24: color_for_urgency(0.0) is (0,255,0) and color_for_urgency(1.0) is  *)
(* (255,0,0); an input below 0 gives the color of 0 and one above 1 the    *)
(* color of 1; from a lower to a higher urgency the red channel never      *)
(* decreases and the green channel never increases; the color is yellow    *)
(* (255,255,0) at 0.33 and orange (255,128,0) at 0.66, and between any two *)
(* urgencies, on whichever sides of the boundaries, no channel moves by    *)
(* more than the slope of the ramp times their distance.                   *)
C24_UrgencyRamp ==
    Returned("color_for_urgency") =>
      LET p == arg.progress
          c == result.color
      IN  /\ p.num = 0 => c = Rgb(0, 255, 0)
          /\ p.num = p.den => c = Rgb(255, 0, 0)
          /\ p.num < 0 => c = color_for_urgency(Frac(0, 1))
          /\ p.num > p.den => c = color_for_urgency(Frac(1, 1))
          /\ p = Frac(33, 100) => c = Rgb(255, 255, 0)
          /\ p = Frac(66, 100) => c = Rgb(255, 128, 0)
          /\ \A q \in UrgencySamples :
               ~FracLess(q, p) =>
                 LET d == color_for_urgency(q)
                 IN  /\ d.r >= c.r
                     /\ d.g <= c.g
                     /\ NoJumpBetween(Clamp01(p), Clamp01(q), c.r, d.r)
                     /\ NoJumpBetween(Clamp01(p), Clamp01(q), c.g, d.g)
                     /\ NoJumpBetween(Clamp01(p), Clamp01(q), c.b, d.b)

(* C24 witness: the call for the urgency 0.66 has returned orange, and the *)
(* sample just below it is within the second segment.                      *)
C24_Witness ==
    /\ Returned("color_for_urgency")
    /\ arg.progress = Frac(66, 100)
    /\ result.color = Rgb(255, 128, 0)
    /\ \E q \in UrgencySamples :
         /\ FracLess(Frac(33, 100), q) /\ FracLess(q, Frac(66, 100))
         /\ color_for_urgency(q).g < 255

(* C25: with cycle_length = letter_count * step_ms + pause_ms and          *)
(* pos = elapsed_ms mod cycle_length, blink_sequence_char selects no       *)
(* character during the pause (pos >= letter_count * step_ms); otherwise   *)
(* it selects the letter at index pos / step_ms while pos is within the    *)
(* first window (SEQ_OFF_MS) of that step and nothing in the rest of the   *)
(* step; never any other letter.                                           *)
C25_SequenceReveal ==
    Returned("blink_sequence_char") =>
      LET letter_count == Len(arg.word)
          cycle_length == letter_count * SEQ_STEP_MS + SEQ_PAUSE_MS
          pos == arg.elapsed_ms % cycle_length
      IN  /\ pos >= letter_count * SEQ_STEP_MS => result.ch = NoChar
          /\ pos < letter_count * SEQ_STEP_MS =>
               /\ (pos % SEQ_STEP_MS < SEQ_OFF_MS) =>
                    result.ch = arg.word[(pos \div SEQ_STEP_MS) + 1]
               /\ (pos % SEQ_STEP_MS >= SEQ_OFF_MS) => result.ch = NoChar

(* C25 witness: in the second cycle of a two-letter word, within the first *)
(* window of the second step, the second letter is selected.               *)
C25_Witness ==
    /\ Returned("blink_sequence_char")
    /\ arg.word = <<"q", "w">>
    /\ arg.elapsed_ms >= 2 * SEQ_STEP_MS + SEQ_PAUSE_MS + SEQ_STEP_MS
    /\ result.ch = "w"

Addressable(keyboard, ch) == led_for_char(keyboard, ch) # NoLed

(* A text without the characters that have no key. *)
RECURSIVE OnlyAddressable(_, _)
OnlyAddressable(keyboard, text) ==
    IF text = <<>> THEN <<>>
    ELSE (IF Addressable(keyboard, Head(text)) THEN <<Head(text)>> ELSE <<>>)
         \o OnlyAddressable(keyboard, Tail(text))

(* An attempt without the (letter, state) pairs whose letter has no key. *)
RECURSIVE AttemptOnlyAddressable(_, _)
AttemptOnlyAddressable(keyboard, attempt) ==
    IF attempt.guess = <<>> THEN attempt
    ELSE LET rest == AttemptOnlyAddressable(keyboard,
                         [attempt EXCEPT !.guess = Tail(attempt.guess),
                                         !.states = Tail(attempt.states)])
         IN  IF Addressable(keyboard, Head(attempt.guess))
             THEN [rest EXCEPT !.guess = <<Head(attempt.guess)>> \o rest.guess,
                               !.states = <<Head(attempt.states)>> \o rest.states]
             ELSE rest

KeyOrder == UpperChars \o <<"0","1","2","3","4","5","6","7","8","9">> \o <<" ">>

(* The keyboard with a key of its own, beyond its LEDs, for every          *)
(* character it has none for.                                              *)
WithEveryKey(keyboard) ==
    [keyboard EXCEPT !.led_map =
        [c \in Range(KeyOrder) |->
            IF c \in DOMAIN keyboard.led_map THEN keyboard.led_map[c]
            ELSE 100 + (CHOOSE i \in 1..Len(KeyOrder) : KeyOrder[i] = c)]]

Restrict(map, keys) == [k \in (DOMAIN map) \cap keys |-> map[k]]

HasUnaddressable(keyboard, text) ==
    \E i \in 1..Len(text) : ~Addressable(keyboard, text[i])

(* C26: a highlight request whose key has no entry in the key map is       *)
(* dropped without an error: build_leds and build_keyboard_leds return Ok, *)
(* their output has entries only for indices of the key map, and the       *)
(* entries are those the same call gives without the request: for          *)
(* build_leds the words without their unmapped letters, for                *)
(* apply_attempt_colors the attempt without its unmapped pairs, for        *)
(* build_keyboard_leds the frame before the blink when the letter to turn  *)
(* off has no key, and in both frame functions the frame of a keyboard     *)
(* that has a key of its own for every character, cut down to this         *)
(* keyboard's LEDs.                                                        *)
C26_UnmappedDropped ==
    /\ Returned("build_leds") =>
         /\ result.ok
         /\ DOMAIN result.map \subseteq Range(arg.keyboard.led_map)
         /\ result.map =
              build_leds(arg.keyboard,
                         [k \in 1..Len(arg.words) |->
                            [arg.words[k] EXCEPT
                               !.text = OnlyAddressable(arg.keyboard, arg.words[k].text)]],
                         arg.lives, arg.now)
         /\ result.map =
              Restrict(build_leds(WithEveryKey(arg.keyboard), arg.words, arg.lives, arg.now),
                       Range(arg.keyboard.led_map))
    /\ Returned("apply_attempt_colors") =>
         /\ DOMAIN result.map \subseteq Range(arg.keyboard.led_map)
         /\ result.map =
              apply_attempt_colors(arg.map, arg.keyboard,
                                   AttemptOnlyAddressable(arg.keyboard, arg.attempt))
    /\ Returned("build_keyboard_leds") =>
         /\ result.ok
         /\ DOMAIN result.map \subseteq Range(arg.keyboard.led_map)
         /\ ~Addressable(arg.keyboard,
                         BlinkChar(arg.attempts, arg.current_guess, arg.selected_attempt,
                                   arg.elapsed_ms)) =>
              result.map =
                KeyboardLedsBeforeBlink(arg.keyboard, arg.attempts, arg.current_guess,
                                        arg.selected_attempt, arg.blink_on, arg.elapsed_ms)
         /\ result.map =
              Restrict(build_keyboard_leds(WithEveryKey(arg.keyboard), arg.attempts,
                                           arg.current_guess, arg.selected_attempt,
                                           arg.blink_on, arg.elapsed_ms),
                       Range(arg.keyboard.led_map))

(* C26 witness: a Wordle frame composed while the guess "qz" is typed and  *)
(* the letter to turn off is the z, which has no key: the frame has the    *)
(* guess color on Q and entries for no other index than the keyboard's.    *)
C26_Witness ==
    /\ Returned("build_keyboard_leds")
    /\ arg.current_guess = <<"q", "z">>
    /\ arg.selected_attempt = Len(arg.attempts)
    /\ BlinkChar(arg.attempts, arg.current_guess, arg.selected_attempt, arg.elapsed_ms) = "z"
    /\ result.map[led_for_char(arg.keyboard, "q")] = Rgb(80, 140, 255)
    /\ DOMAIN result.map \subseteq Range(arg.keyboard.led_map)

S_space == <<"s","p","a","c","e">>
S_keycolon == <<"k","e","y",":">>
S_key == <<"k","e","y">>

HasMarker(text, marker) ==
    /\ Len(text) >= Len(marker)
    /\ StrLower(SubSeq(text, 1, Len(marker))) = marker

(* The name without surrounding blanks and without a leading "key:" or,    *)
(* failing that, "key", in any letter case.                                *)
AfterMarker(name) ==
    LET text == Trim(name)
    IN  IF HasMarker(text, S_keycolon) THEN SubSeq(text, Len(S_keycolon) + 1, Len(text))
        ELSE IF HasMarker(text, S_key) THEN SubSeq(text, Len(S_key) + 1, Len(text))
        ELSE text

(* The positions of text that are a token of length exactly 1: an          *)
(* alphanumeric character with no alphanumeric neighbour.                  *)
SingleTokenPositions(text) ==
    { i \in 1..Len(text) :
        /\ IsAsciiAlphanumeric(text[i])
        /\ i > 1 => ~IsAsciiAlphanumeric(text[i - 1])
        /\ i < Len(text) => ~IsAsciiAlphanumeric(text[i + 1]) }

(* C27: extract_char gives the space character for a name that contains    *)
(* "space" in any letter case, whatever marker it starts with; for any     *)
(* other name it drops a leading "key:" or "key", splits the rest at the   *)
(* non-alphanumeric characters and gives the first token of length exactly *)
(* 1 in upper case; a name without such a token gives no identity, and a   *)
(* position that has only such a name is in no entry of the key map.       *)
C27_ExtractChar ==
    Returned("extract_char") =>
      LET rest == AfterMarker(arg.name)
          singles == SingleTokenPositions(rest)
      IN  /\ IF ContainsNoCase(arg.name, S_space)
             THEN result.ch = " "
             ELSE IF singles = {} THEN result.ch = NoChar
             ELSE result.ch = ToAsciiUppercase(rest[MinOf(singles)])
          /\ result.ch = NoChar =>
               /\ build_led_map(<<arg.name>>, <<>>) = EmptyMap
               /\ 1 \notin Range(build_led_map(<<N_KeyA, arg.name>>, <<>>))
          /\ result.ch # NoChar =>
               build_led_map(<<arg.name>>, <<>>)[result.ch] = 0

(* C27 witness: "Keypad 5" has lost its leading "Key", and the first       *)
(* single-character token of "pad 5" is the 5.                             *)
C27_Witness ==
    /\ Returned("extract_char")
    /\ arg.name = <<"K","e","y","p","a","d"," ","5">>
    /\ result.ch = "5"

(* The position of the first Esc or Ctrl-C among the events, 0 if none. *)
FirstQuit(events) ==
    IF \E i \in 1..Len(events) : events[i] \in {"Esc", "CtrlC"}
    THEN MinOf({ i \in 1..Len(events) : events[i] \in {"Esc", "CtrlC"} })
    ELSE 0

(* The packets written since the typing loop was left. *)
SentAfterLoop == SubSeq(sent, locals.exit_sent + 1, Len(sent))

(* The finish frame of the typing game for the lives left: the life keys   *)
(* and the space key, every other LED off.                                 *)
IsTypingFinishFrame(p) ==
    /\ IsUpdateLeds(p)
    /\ PayloadColors(p.payload) =
         SetLedsBuffer(GameKeyboard.led_buffer, TypingFinishLeds(GameKeyboard, locals.lives))

(* In the loop the deadline has not passed, and handle_input is only       *)
(* called with a life left; once the loop is left every game frame has     *)
(* been composed before, and what is written afterwards is the finish      *)
(* frame, if the summary got that far, and then the teardown frame.        *)
TypingExitState ==
    /\ pc \in {"input", "update", "tick"} => locals.elapsed < LEVEL_DURATION
    /\ pc = "input" => locals.lives > 0
    /\ pc \in {"loop_top", "input", "update", "tick"} => locals.exit_sent = -1
    /\ pc \in {"summary", "wait", "unwind", "done"} =>
         /\ locals.exit_sent >= 0
         /\ locals.game_frames = locals.exit_sent
         /\ \A k \in 1..locals.exit_sent : k <= Len(sent) /\ ~IsTypingFinishFrame(sent[k])
         /\ Len(SentAfterLoop) <= 2
         /\ pc = "summary" => SentAfterLoop = <<>>
         /\ pc = "wait" => Len(SentAfterLoop) = 1 /\ IsTypingFinishFrame(SentAfterLoop[1])
         /\ pc = "unwind" => \A k \in 1..Len(SentAfterLoop) : IsTypingFinishFrame(SentAfterLoop[k])
         /\ pc = "done" =>
              /\ SentAfterLoop # <<>>
              /\ IsZeroFrame(Last(SentAfterLoop))
              /\ Len(SentAfterLoop) = 2 => IsTypingFinishFrame(SentAfterLoop[1])

(* At the top of the loop a passed deadline or no life left means the loop *)
(* is left there and then.                                                 *)
TypingExitAtTop ==
    (pc = "loop_top" /\ pc' # "loop_top") =>
        IF locals'.elapsed >= LEVEL_DURATION \/ locals.lives = 0
        THEN pc' = "summary" /\ exitCause' = "over"
        ELSE pc' = "input"

(* handle_input leaves the loop at the first Esc or Ctrl-C it reads: the   *)
(* events behind it stay unread, those before it have been applied.        *)
TypingExitOnQuit ==
    (pc = "input" /\ pc' \in {"update", "summary"}) =>
        LET i == FirstQuit(locals.pending)
        IN  IF i = 0 THEN pc' = "update" /\ locals'.pending = <<>>
            ELSE /\ pc' = "summary"
                 /\ exitCause' = "quit"
                 /\ locals'.pending = SubSeq(locals.pending, i + 1, Len(locals.pending))
                 /\ locals'.buffer =
                      typing_handle_input(locals.buffer, SubSeq(locals.pending, 1, i - 1),
                                          NoFail).buffer

(* C29: the typing loop is left at the top of the iteration that finds     *)
(* the 60 s passed or no life left, and by handle_input at the first Esc   *)
(* or Ctrl-C it reads; once it is left no game frame is composed, and only *)
(* the finish frame and then the teardown frame are written.               *)
C29_CooperativeExit ==
    /\ []TypingExitState
    /\ [][TypingExitAtTop /\ TypingExitOnQuit]_vars

(* C29 witness: the run is over after an Esc with a key still unread       *)
(* behind it; the finish frame and the teardown frame are the two packets  *)
(* written since the loop was left, after one game frame.                  *)
C29_Witness ==
    /\ locals.fn = "run_with_config"
    /\ pc = "done"
    /\ exitCause = "quit"
    /\ locals.pending # <<>>
    /\ locals.game_frames = 1
    /\ Len(SentAfterLoop) = 2
    /\ IsTypingFinishFrame(SentAfterLoop[1])
    /\ IsZeroFrame(SentAfterLoop[2])

(* The typing loop is left with no life left. *)
TypingOutOfLives ==
    /\ locals.fn = "run_with_config"
    /\ pc = "summary"
    /\ exitCause = "over"
    /\ locals.lives = 0
    /\ locals.elapsed < LEVEL_DURATION

(* C30: in the Wordle game, once an attempt equal to the secret has been   *)
(* recorded no further attempt is appended: in every reachable state a     *)
(* winning attempt, if any, is the last element of the attempts list.      *)
C30_WinIsLast ==
    locals.fn = "run_with_keyboard" =>
      \A k \in 1..Len(locals.attempts) :
        locals.attempts[k].is_win => k = Len(locals.attempts)

(***************************************************************************)
(* The key map and the frame buffer of a session.                          *)
(***************************************************************************)
(* C31: as long as the session lives, every index of the key map (every    *)
(* value led_for_char can return) is below the length of the frame buffer, *)
(* also for a device with more alt-names than LEDs; so a color that        *)
(* set_leds is given for such an index is in the buffer, not dropped.      *)
C31_KeyMapInBuffer ==
    kb.present =>
        /\ \A ch \in DOMAIN kb.led_map :
              kb.led_map[ch] >= 0 /\ kb.led_map[ch] < Len(kb.led_buffer)
        /\ \A ch \in Range(AsciiTable) :
              led_for_char(kb, ch) # NoLed => led_for_char(kb, ch) < Len(kb.led_buffer)
        /\ (pc = "api" /\ setResult # "none") =>
              \A j \in 1..Len(lastLeds) :
                 lastLeds[j].id \in Range(kb.led_map) =>
                    LET led == lastLeds[MaxOf(EntriesFor(lastLeds, lastLeds[j].id))]
                    IN  kb.led_buffer[led.id + 1] = led.b * 65536 + led.g * 256 + led.r

(* C31 witness: the keyboard with one LED and two alt-names has been given *)
(* a color for the LED of the character '1', and the buffer holds it.      *)
C31_Witness ==
    /\ kb.present
    /\ pc = "api"
    /\ setResult = "ok"
    /\ Len(kb.led_buffer) = 1
    /\ led_for_char(kb, "1") = 0
    /\ Len(lastLeds) = 1
    /\ lastLeds[1] = LedColor(0, [r |-> 0, g |-> 255, b |-> 0])
    /\ kb.led_buffer = <<65280>>

(***************************************************************************)
(* Characters of the key map that share an LED.                            *)
(***************************************************************************)
(* C32, as claimed: the key map is injective, no two distinct characters   *)
(* are mapped to the same LED index, whatever the LED names and alt-names. *)
C32_KeyMapInjective ==
    Returned("build_led_map") =>
        \A c1, c2 \in DOMAIN result : result[c1] = result[c2] => c1 = c2

(* C32, amended: two distinct characters are mapped to the same LED index  *)
(* only when one is the character of the alt-name and the other the        *)
(* character of the primary name at that index; the characters that one    *)
(* list alone yields never share an index.                                 *)
C32_SharedOnlyByAltAndPrimary ==
    Returned("build_led_map") =>
        \A c1, c2 \in DOMAIN result :
            (c1 # c2 /\ result[c1] = result[c2]) =>
                LET k == result[c1] + 1
                IN  /\ k <= Len(arg.led_names)
                    /\ k <= Len(arg.led_alt_names)
                    /\ {c1, c2} = {NameChar[arg.led_alt_names[k]], NameChar[arg.led_names[k]]}

(* C32 witness: the alt-name at index 0 yields 'A' and the primary name at *)
(* index 0 yields 'B'; both characters are mapped to LED 0.                *)
C32_Witness ==
    /\ Returned("build_led_map")
    /\ arg.led_names = <<N_KEY_B>>
    /\ arg.led_alt_names = <<N_a>>
    /\ DOMAIN result = {"A", "B"}
    /\ result["A"] = 0
    /\ result["B"] = 0

(***************************************************************************)
(* The protocol version of a session.                                      *)
(***************************************************************************)
IsDataRequest(p) == p.id = PACKET_ID_REQUEST_CONTROLLER_DATA

(* the version a controller-data request asks for: its u32, or 0 when the  *)
(* payload is empty                                                        *)
RequestedVersion(p) == IF p.payload = <<>> THEN 0 ELSE p.payload[1]

(* C33: the negotiated version is always in 0..5, and every controller's   *)
(* record was parsed under the version that its own request carried: the   *)
(* request has an empty payload exactly when the version is 0.  (version   *)
(* is a local of connect: it is compared while connect runs.)              *)
C33_VersionSentIsVersionParsed ==
    /\ version \in 0..CLIENT_PROTOCOL_MAX
    /\ \A k \in 1..Len(sent) :
          IsDataRequest(sent[k]) =>
             /\ RequestedVersion(sent[k]) \in 0..CLIENT_PROTOCOL_MAX
             /\ sent[k].payload \in {<<>>, <<RequestedVersion(sent[k])>>}
             /\ sent[k].payload # <<0>>
             /\ waitKind # "none" => RequestedVersion(sent[k]) = version
    /\ Len(devices) <= Len(SelectSeq(sent, IsDataRequest))
    /\ \A i \in 1..Len(devices) :
          LET request == SelectSeq(sent, IsDataRequest)[i]
          IN  /\ request.dev = i - 1
              /\ \E rec \in DaemonDevices :
                    devices[i] = parse_controller_data(i - 1, rec, RequestedVersion(request))

(* C33 witness: the version is 5, two controllers were asked for with it,  *)
(* and the second record has the alt-names that only version 5 carries.    *)
C33_Witness ==
    /\ version = CLIENT_PROTOCOL_MAX
    /\ Len(devices) = 2
    /\ devices[2].led_alt_names # <<>>
    /\ SelectSeq(sent, IsDataRequest)[2].payload = <<CLIENT_PROTOCOL_MAX>>

(* the fallback: no version reply, the request is empty and the record was *)
(* parsed as version 0, without vendor                                     *)
C33_FallbackReached ==
    /\ version = 0
    /\ waitResult = "matched"
    /\ Len(devices) = 1
    /\ devices[1].vendor = <<>>
    /\ SelectSeq(sent, IsDataRequest)[1].payload = <<>>

(***************************************************************************)
(* The controller that the session's packets address.                      *)
(***************************************************************************)
IsSetCustomMode(p) == p.id = PACKET_ID_SET_CUSTOM_MODE

CustomModePackets == SelectSeq(sent, IsSetCustomMode)

(* C34: the set-custom-mode packet and every update-leds packet, the one   *)
(* of the teardown included, address the selected keyboard by its index in *)
(* the daemon's enumeration, not by its position among the keyboards; the  *)
(* index is the same from the first packet to the last.                    *)
C34_OriginalDeviceIndex ==
    /\ Len(CustomModePackets) <= 1
    /\ \A k \in 1..Len(sent) :
          IsUpdateLeds(sent[k]) =>
             /\ Len(CustomModePackets) = 1
             /\ sent[k].dev = CustomModePackets[1].dev
    /\ kb.present =>
          /\ Len(CustomModePackets) = 1
          /\ kb.device_idx = CustomModePackets[1].dev
    /\ (devices # <<>> /\ Len(CustomModePackets) = 1) =>
          LET idx == CustomModePackets[1].dev
          IN  /\ idx < Len(devices)
              /\ devices[idx + 1] = select_keyboard(devices).device
              /\ devices[idx + 1].idx = idx
              /\ IsKeyboard(devices[idx + 1])
              /\ \A j \in 1..Len(devices) : devices[j].idx = j - 1

(* C34 witness: the second controller was the keyboard (its position among *)
(* the keyboards is 0, its index 1); a frame and the teardown frame have   *)
(* been written, all for controller 1.                                     *)
C34_Witness ==
    /\ teardowns = 1
    /\ UpdateLedsCount(sent) >= 2
    /\ Len(CustomModePackets) = 1
    /\ CustomModePackets[1].dev = 1
    /\ ~IsZeroFrame(sent[Len(sent) - 1])
    /\ IsZeroFrame(Last(sent))
    /\ Last(sent).dev = 1

(* the selection of C34's case: a mouse at index 0, the keyboard at 1 *)
C34_SelectedSecond ==
    /\ pc = "game_enter"
    /\ kb.present
    /\ Len(devices) = 2
    /\ ~IsKeyboard(devices[1])
    /\ kb.device_idx = 1

(***************************************************************************)
(* Lives, missed words and bonus words of the typing game.                 *)
(***************************************************************************)
(* C35: lives is in 0..START_LIVES in every state of the game: a bonus     *)
(* word typed at five lives leaves five, and two words that expire in one  *)
(* iteration at one life leave zero.                                       *)
C35_LivesInRange ==
    /\ locals.lives >= 0
    /\ locals.lives <= START_LIVES

(* C35 witness: at one life, with four words missed, two words expired in  *)
(* the same iteration: six are missed and lives is 0.                      *)
C35_Witness ==
    /\ locals.lives = 0
    /\ locals.words_missed = START_LIVES + 1
    /\ pc = "tick"

(* a bonus word was typed at five lives: the eleventh word typed, lives    *)
(* still five                                                              *)
C35_BonusAtFullLives ==
    /\ locals.lives = START_LIVES
    /\ locals.words_missed = 0
    /\ locals.words_typed = BONUS_INTERVAL + 1
    /\ locals.words_since_bonus = 0
    /\ ~locals.bonus_ready
    /\ locals.words = <<>>
    /\ pc = "tick"

(* the words of the field that have outlived their ttl at the instant now *)
ExpiredAt(words, now) ==
    {k \in 1..Len(words) : now - words[k].spawned_at >= words[k].ttl}

(* one word is spawned in this iteration (typing.rs 175-191) *)
SpawnsAt(l) ==
    l.words = <<>> \/ (l.now >= l.next_spawn /\ Len(l.words) < MAX_WORDS)

(* C36: in every iteration each word that has expired adds one to          *)
(* words_missed and takes one life, lives stopping at 0 (a bonus word      *)
(* typed in the same iteration gives one back); the expiry comes before    *)
(* the matching, so a word that expires while the buffer holds its text is *)
(* missed, not typed: a typed word is a word that was still alive.         *)
C36_ExpiredIsMissed ==
    [][(pc = "update" /\ pc' = "tick") =>
          LET expired == Cardinality(ExpiredAt(locals.words, locals.now))
              spawned == IF SpawnsAt(locals) THEN 1 ELSE 0
              typed == locals'.words_typed - locals.words_typed
              left == IF locals.lives > expired THEN locals.lives - expired ELSE 0
          IN  /\ locals'.words_missed = locals.words_missed + expired
              /\ typed \in {0, 1}
              /\ locals'.lives = left \/ (typed = 1 /\ locals'.lives = Min(left + 1, START_LIVES))
              /\ ExpiredAt(locals'.words, locals.now) = {}
              /\ Len(locals'.words) + typed + expired = Len(locals.words) + spawned
              /\ (/\ locals.buffer # <<>>
                  /\ ~SpawnsAt(locals) \/ locals.buffer \notin WordTexts
                  /\ \A k \in 1..Len(locals.words) :
                        locals.words[k].text = locals.buffer => k \in ExpiredAt(locals.words, locals.now))
                 => (typed = 0 /\ locals'.buffer = locals.buffer)]_vars

(* C36 witness: the buffer holds the text of the one word of the field,    *)
(* the word has expired in this iteration: it is missed, nothing is typed  *)
(* and a life is lost.                                                     *)
C36_Witness ==
    /\ pc = "tick"
    /\ locals.now = MidLevel + 10
    /\ locals.buffer = <<"w">>
    /\ locals.words_missed = 1
    /\ locals.words_typed = 0
    /\ locals.lives = START_LIVES - 1

(* the number of bonus (or non-bonus) words among the words at the indices *)
(* ks of a field                                                           *)
CountBonus(words, ks, is_bonus) ==
    Cardinality({k \in ks : words[k].is_bonus = is_bonus})

(* the words of a kind that the iteration from l to m typed: those that    *)
(* were alive or spawned (a spawned word is a bonus word exactly when      *)
(* bonus_ready was set) and are not on the field afterwards                *)
TypedOfKind(l, m, is_bonus) ==
    CountBonus(l.words, (1..Len(l.words)) \ ExpiredAt(l.words, l.now), is_bonus)
        + (IF SpawnsAt(l) /\ l.bonus_ready = is_bonus THEN 1 ELSE 0)
        - CountBonus(m.words, 1..Len(m.words), is_bonus)

(* C37: bonus_ready is set exactly by the typing of the tenth non-bonus    *)
(* word since the counter was reset; it stays set through every iteration  *)
(* that spawns no word; the next word spawned is a bonus word and clears   *)
(* it, so each ten non-bonus words give at most one bonus word; a typed    *)
(* bonus word leaves the counter as it is.                                 *)
C37_BonusEveryTenWords ==
    [][/\ locals.words_since_bonus < BONUS_INTERVAL
       /\ IF pc = "update" /\ pc' = "tick"
          THEN LET typedPlain == TypedOfKind(locals, locals', FALSE)
                   typedBonus == TypedOfKind(locals, locals', TRUE)
                   tenth == typedPlain = 1 /\ locals.words_since_bonus = BONUS_INTERVAL - 1
               IN  /\ typedPlain \in {0, 1}
                   /\ typedBonus \in {0, 1}
                   /\ typedPlain + typedBonus = locals'.words_typed - locals.words_typed
                   /\ locals'.bonus_ready <=> (tenth \/ (locals.bonus_ready /\ ~SpawnsAt(locals)))
                   /\ locals'.words_since_bonus =
                         IF tenth THEN 0
                         ELSE locals.words_since_bonus + typedPlain
          ELSE /\ locals'.bonus_ready = locals.bonus_ready
               /\ locals'.words_since_bonus = locals.words_since_bonus]_vars

(* C37 witness: ten words are typed, the field was empty and the word      *)
(* spawned on it is a bonus word; the flag is cleared.                     *)
C37_Witness ==
    /\ pc = "tick"
    /\ locals.words_typed = BONUS_INTERVAL
    /\ ~locals.bonus_ready
    /\ locals.words_since_bonus = 0
    /\ Len(locals.words) = 1
    /\ locals.words[1].is_bonus
    /\ locals.words[1].spawned_at = locals.now

(* the tenth non-bonus word has just been typed: the flag is set *)
C37_TenthTyped ==
    /\ pc = "tick"
    /\ locals.words_typed = BONUS_INTERVAL
    /\ locals.bonus_ready
    /\ locals.words_since_bonus = 0
    /\ locals.buffer = <<>>
    /\ locals.keys = MaxKeys - 1

(* the flag is set and an iteration has spawned no word: the field holds   *)
(* a word and next_spawn is not reached                                    *)
C37_FlagKept ==
    /\ pc = "tick"
    /\ locals.bonus_ready
    /\ locals.words # <<>>
    /\ locals.now < locals.next_spawn
    /\ \A k \in 1..Len(locals.words) : locals.words[k].spawned_at <= MidLevel

(* a bonus word was typed with nine words on the counter: it stays nine *)
C37_BonusTypedAtNine ==
    /\ pc = "tick"
    /\ locals.words_since_bonus = BONUS_INTERVAL - 1
    /\ locals.words_typed = 2 * BONUS_INTERVAL
    /\ ~locals.bonus_ready

(***************************************************************************)
(* The board of the Wordle game.                                           *)
(***************************************************************************)
(* the locals of the game after handle_input has read the first i of the  *)
(* pending key events                                                      *)
AfterEvents(i) ==
    wordle_handle_input(locals, SubSeq(locals.pending, 1, i), NoFail).locals

WithinBoard(l) ==
    /\ l.selected_attempt >= 0
    /\ l.selected_attempt <= Len(l.attempts)
    /\ Len(l.attempts) <= MAX_ATTEMPTS
    /\ Len(l.current_guess) <= MAX_LEN

(* C38: in every state of the game, and after every key event that         *)
(* handle_input reads, selected_attempt <= attempts.len() <= MAX_ATTEMPTS  *)
(* and current_guess has at most MAX_LEN characters.                       *)
C38_BoardWithinBounds ==
    /\ WithinBoard(locals)
    /\ pc = "input" => \A i \in 0..Len(locals.pending) : WithinBoard(AfterEvents(i))

(* C38 witness: with MAX_ATTEMPTS attempts on the board a guess of a valid *)
(* length was typed and entered; Enter was refused and the guess is still  *)
(* there.                                                                  *)
C38_Witness ==
    /\ pc = "tick"
    /\ Len(locals.attempts) = MAX_ATTEMPTS
    /\ locals.selected_attempt = MAX_ATTEMPTS
    /\ locals.current_guess = <<"q", "q", "q", "q">>

(* a guess of MAX_LEN letters and more letters typed after it *)
C38_GuessFull ==
    /\ pc = "input"
    /\ \E i \in 1..(Len(locals.pending) - 1) :
          /\ Len(AfterEvents(i).current_guess) = MAX_LEN
          /\ Len(AfterEvents(i + 1).current_guess) = MAX_LEN
          /\ locals.pending[i + 1] = "w"

(* a past attempt is selected *)
Reviewing(l) == l.selected_attempt # Len(l.attempts)

(* the keys of a guess: letters, Backspace and Enter *)
GuessKeys == {"q", "w", "Backspace", "Enter"}

(* C39: while a past attempt is selected, a letter key, Backspace or       *)
(* Enter leaves current_guess and attempts (and the selection) as they     *)
(* are; of all keys only Left and Right change selected_attempt.  This is  *)
(* said of every key event that handle_input reads.                        *)
C39_ReviewIsReadOnly ==
    pc = "input" =>
        \A i \in 1..Len(locals.pending) :
            LET before == AfterEvents(i - 1)
                after == AfterEvents(i)
                e == locals.pending[i]
            IN  /\ (Reviewing(before) /\ e \in GuessKeys) =>
                      /\ after.current_guess = before.current_guess
                      /\ after.attempts = before.attempts
                      /\ after.selected_attempt = before.selected_attempt
                /\ (Reviewing(before) /\ after.selected_attempt # before.selected_attempt) =>
                      e \in {"Left", "Right"}

(* C39 witness: the first attempt is selected, nine letters are typed in   *)
(* current_guess, and Backspace is read: nothing is erased.                *)
C39_Witness ==
    /\ pc = "input"
    /\ locals.selected_attempt = 0
    /\ Len(locals.attempts) = 1
    /\ Len(locals.current_guess) = MAX_LEN - 1
    /\ locals.pending = <<"Backspace", "q", "Enter">>

(* a letter and Enter are read while a past attempt is selected *)
C39_SelectionMoved ==
    /\ pc = "input"
    /\ Len(locals.attempts) = 1
    /\ locals.pending = <<"Left", "q", "Enter">>
    /\ locals.selected_attempt = 1

(***************************************************************************)
(* evaluate_guess.                                                         *)
(***************************************************************************)
(* position i of the guess holds the letter of the secret at i *)
Matches(secret, guess, i) == i <= Len(secret) /\ i <= Len(guess) /\ guess[i] = secret[i]

(* the occurrences of c in the secret that the guess does not match *)
Unmatched(secret, guess, c) ==
    Cardinality({i \in 1..Len(secret) : secret[i] = c /\ ~Matches(secret, guess, i)})

(* the occurrences of c in the guess that are not Correct *)
Misplaced(secret, guess, c) ==
    {i \in 1..Len(guess) : guess[i] = c /\ ~Matches(secret, guess, i)}

(* the leftmost n elements of a set of positions *)
Leftmost(S, n) == {i \in S : Cardinality({j \in S : j < i}) < n}

(* C40: evaluate_guess gives one state per letter of the guess; position i *)
(* is Correct iff i is within both words and the letters agree; of the     *)
(* other occurrences of a letter c in the guess the leftmost ones are      *)
(* Present, as many as the secret has occurrences of c that are not        *)
(* matched; every other position is Absent.  Secret and guess may have     *)
(* different lengths.                                                      *)
C40_EvaluateGuess ==
    Returned("evaluate_guess") =>
        /\ Len(result.states) = Len(arg.guess)
        /\ \A i \in 1..Len(arg.guess) :
              LET c == arg.guess[i]
                  present == Leftmost(Misplaced(arg.secret, arg.guess, c),
                                      Unmatched(arg.secret, arg.guess, c))
              IN  result.states[i] =
                     IF Matches(arg.secret, arg.guess, i) THEN "Correct"
                     ELSE IF i \in present THEN "Present"
                     ELSE "Absent"

(* C40 witness: the secret wwq holds one q; of the two q of the guess qqw  *)
(* the left one is Present and the other Absent.                           *)
C40_Witness ==
    /\ Returned("evaluate_guess")
    /\ arg.secret = <<"w", "w", "q">>
    /\ arg.guess = <<"q", "q", "w">>
    /\ result.states = <<"Present", "Absent", "Present">>

(* a guess longer than the secret: the letter beyond the secret's end is   *)
(* Present, the matched q of the secret gives no second Present            *)
C40_LongerGuess ==
    /\ Returned("evaluate_guess")
    /\ arg.secret = <<"q", "w">>
    /\ arg.guess = <<"q", "q", "w">>
    /\ result.states = <<"Correct", "Absent", "Present">>
====
